---- MODULE Spec2Model ----
(***************************************************************************)
(* Model of the wakeguard core: the hysteresis state machine               *)
(* (src/core/state_machine.py), the alarm cooldown gate                    *)
(* (src/core/alarms.py), the sliding-window signal processor               *)
(* (src/core/signals.py) and the session that drives them                  *)
(* (src/core/session.py), and the threads of the application               *)
(* (src/ui/main_window.py, src/core/camera.py).                            *)
(*                                                                         *)
(* Units.  The source computes with floats; the model computes exactly:    *)
(*   - time (timestamps, durations, dwell timers) in tenths of a second,   *)
(*     so 3.0 s is 30 and 0.1 s is 1;                                      *)
(*   - eye aspect ratios in hundredths, so 0.22 is 22;                     *)
(*   - score weights in tenths, so 1.5 is 15;                              *)
(*   - scores as exact fractions [num, den] with den > 0.                  *)
(* Optional[T] is a sequence: None is << >> and a present value v is <<v>>.*)
(***************************************************************************)
EXTENDS Integers, Sequences, FiniteSets, TLC

VARIABLES
    machine,     \* the FocusStateMachine object
    controller,  \* the AlarmController object
    processor,   \* the SignalProcessor object
    session,     \* the FocusSession object; its state_machine and
                 \* signal_processor fields are machine and processor
    app,         \* the MainWindow object, its camera thread and its UI
                 \* thread
    call,        \* the most recent call: its operation and arguments
    ret,         \* what the most recent call returned
    ghost        \* observer: what was true just before the most recent call,
                 \* and the history of calls (never read by the program)

vars == <<machine, controller, processor, session, app, call, ret, ghost>>

----------------------------------------------------------------------------
(* Bounds of the model *)

MaxTime == 40
MaxDwell == 30

----------------------------------------------------------------------------
(* Helpers *)

None == << >>
Some(v) == <<v>>
Get(o) == o[1]

Max(a, b) == IF a >= b THEN a ELSE b
Min(a, b) == IF a <= b THEN a ELSE b

\* A score is an exact fraction num/den, den > 0.
Score(n) == [num |-> n, den |-> 1]
ScoreGE(s, threshold) == s.num >= threshold * s.den
ScoreLE(s, threshold) == s.num <= threshold * s.den

----------------------------------------------------------------------------
(* src/core/state_machine.py *)

FocusState ==
    {"FOCUSED", "DROWSY_WARNING", "DROWSY_ALARM",
     "DISTRACTED_WARNING", "DISTRACTED_ALARM"}

FocusEventType ==
    {"ENTER_FOCUSED", "ENTER_DROWSY_WARNING", "ENTER_DROWSY_ALARM",
     "ENTER_DISTRACTED_WARNING", "ENTER_DISTRACTED_ALARM"}

\* StateParams(): the dataclass defaults.
StateParams ==
    [drowsy_warning_threshold |-> 60,
     drowsy_alarm_threshold |-> 80,
     distracted_warning_threshold |-> 60,
     distracted_alarm_threshold |-> 80,
     min_drowsy_warning_duration |-> 30,
     min_drowsy_alarm_duration |-> 20,
     min_distracted_warning_duration |-> 30,
     min_distracted_alarm_duration |-> 20,
     drowsy_recovery_threshold |-> 40,
     distracted_recovery_threshold |-> 40,
     recovery_grace_duration |-> 30]

\* The "Balanced" profile the application constructs its machine with.
BalancedParams ==
    [drowsy_warning_threshold |-> 60,
     drowsy_alarm_threshold |-> 80,
     distracted_warning_threshold |-> 60,
     distracted_alarm_threshold |-> 80,
     min_drowsy_warning_duration |-> 20,
     min_drowsy_alarm_duration |-> 15,
     min_distracted_warning_duration |-> 20,
     min_distracted_alarm_duration |-> 15,
     drowsy_recovery_threshold |-> 60,
     distracted_recovery_threshold |-> 60,
     recovery_grace_duration |-> 0]

\* FocusStateMachine.__init__
FocusStateMachine_init(params) ==
    [params |-> params,
     state |-> "FOCUSED",
     last_timestamp |-> None,
     time_in_state |-> 0,
     time_above_drowsy_warning |-> 0,
     time_above_drowsy_alarm |-> 0,
     time_above_distracted_warning |-> 0,
     time_above_distracted_alarm |-> 0,
     time_below_drowsy_recovery |-> 0,
     time_below_distracted_recovery |-> 0]

\* _update_timers with the two recovery timers never reset.
update_timers_sticky(m, dt, scores) ==
    LET p == m.params IN
    [m EXCEPT
        !.time_above_drowsy_warning =
            IF ScoreGE(scores.drowsiness_score, p.drowsy_warning_threshold)
            THEN @ + dt ELSE 0,
        !.time_above_drowsy_alarm =
            IF ScoreGE(scores.drowsiness_score, p.drowsy_alarm_threshold)
            THEN @ + dt ELSE 0,
        !.time_above_distracted_warning =
            IF ScoreGE(scores.distraction_score, p.distracted_warning_threshold)
            THEN @ + dt ELSE 0,
        !.time_above_distracted_alarm =
            IF ScoreGE(scores.distraction_score, p.distracted_alarm_threshold)
            THEN @ + dt ELSE 0,
        !.time_below_drowsy_recovery = @ + dt,
        !.time_below_distracted_recovery = @ + dt]

\* FocusStateMachine._update_timers
update_timers(m, dt, scores) ==
    LET p == m.params IN
    [m EXCEPT
        !.time_above_drowsy_warning =
            IF ScoreGE(scores.drowsiness_score, p.drowsy_warning_threshold)
            THEN @ + dt ELSE 0,
        !.time_above_drowsy_alarm =
            IF ScoreGE(scores.drowsiness_score, p.drowsy_alarm_threshold)
            THEN @ + dt ELSE 0,
        !.time_above_distracted_warning =
            IF ScoreGE(scores.distraction_score, p.distracted_warning_threshold)
            THEN @ + dt ELSE 0,
        !.time_above_distracted_alarm =
            IF ScoreGE(scores.distraction_score, p.distracted_alarm_threshold)
            THEN @ + dt ELSE 0,
        !.time_below_drowsy_recovery =
            IF ScoreLE(scores.drowsiness_score, p.drowsy_recovery_threshold)
            THEN @ + dt ELSE 0,
        !.time_below_distracted_recovery =
            IF ScoreLE(scores.distraction_score, p.distracted_recovery_threshold)
            THEN @ + dt ELSE 0]

\* Mutant of next_from_focused: the dwell must exceed the minimum duration
\* instead of reaching it.
next_from_focused_strict(m, scores) ==
    LET p == m.params IN
    IF /\ ScoreGE(scores.drowsiness_score, p.drowsy_warning_threshold)
       /\ m.time_above_drowsy_warning > p.min_drowsy_warning_duration
    THEN "DROWSY_WARNING"
    ELSE IF /\ ScoreGE(scores.distraction_score, p.distracted_warning_threshold)
            /\ m.time_above_distracted_warning
                   > p.min_distracted_warning_duration
    THEN "DISTRACTED_WARNING"
    ELSE "FOCUSED"

\* The FOCUSED branch testing the distraction condition before the
\* drowsiness condition.
next_from_focused_distraction_first(m, scores) ==
    LET p == m.params IN
    IF /\ ScoreGE(scores.distraction_score, p.distracted_warning_threshold)
       /\ m.time_above_distracted_warning
              >= p.min_distracted_warning_duration
    THEN "DISTRACTED_WARNING"
    ELSE IF /\ ScoreGE(scores.drowsiness_score, p.drowsy_warning_threshold)
            /\ m.time_above_drowsy_warning >= p.min_drowsy_warning_duration
    THEN "DROWSY_WARNING"
    ELSE "FOCUSED"

\* The FOCUSED branch going straight to the alarm state of a branch when
\* the alarm condition of that branch is met as well.
next_from_focused_straight_to_alarm(m, scores) ==
    LET p == m.params IN
    IF /\ ScoreGE(scores.drowsiness_score, p.drowsy_warning_threshold)
       /\ m.time_above_drowsy_warning >= p.min_drowsy_warning_duration
    THEN IF /\ ScoreGE(scores.drowsiness_score, p.drowsy_alarm_threshold)
            /\ m.time_above_drowsy_alarm >= p.min_drowsy_alarm_duration
         THEN "DROWSY_ALARM"
         ELSE "DROWSY_WARNING"
    ELSE IF /\ ScoreGE(scores.distraction_score, p.distracted_warning_threshold)
            /\ m.time_above_distracted_warning
                   >= p.min_distracted_warning_duration
    THEN IF /\ ScoreGE(scores.distraction_score, p.distracted_alarm_threshold)
            /\ m.time_above_distracted_alarm
                   >= p.min_distracted_alarm_duration
         THEN "DISTRACTED_ALARM"
         ELSE "DISTRACTED_WARNING"
    ELSE "FOCUSED"

\* _compute_next_state, the branch for s == FOCUSED
next_from_focused(m, scores) ==
    LET p == m.params IN
    IF /\ ScoreGE(scores.drowsiness_score, p.drowsy_warning_threshold)
       /\ m.time_above_drowsy_warning >= p.min_drowsy_warning_duration
    THEN "DROWSY_WARNING"
    ELSE IF /\ ScoreGE(scores.distraction_score, p.distracted_warning_threshold)
            /\ m.time_above_distracted_warning
                   >= p.min_distracted_warning_duration
    THEN "DISTRACTED_WARNING"
    ELSE "FOCUSED"

\* The DROWSY_WARNING branch raising the alarm as soon as the score is at
\* the alarm threshold, without the minimum alarm duration.
next_from_drowsy_warning_no_dwell(m, scores) ==
    LET p == m.params IN
    IF ScoreGE(scores.drowsiness_score, p.drowsy_alarm_threshold)
    THEN "DROWSY_ALARM"
    ELSE IF /\ ScoreLE(scores.drowsiness_score, p.drowsy_recovery_threshold)
            /\ m.time_below_drowsy_recovery >= p.recovery_grace_duration
    THEN "FOCUSED"
    ELSE "DROWSY_WARNING"

\* The DROWSY_WARNING branch raising the alarm only after the machine has
\* been in the warning state for the minimum alarm duration.
next_from_drowsy_warning_resident(m, scores) ==
    LET p == m.params IN
    IF /\ ScoreGE(scores.drowsiness_score, p.drowsy_alarm_threshold)
       /\ m.time_above_drowsy_alarm >= p.min_drowsy_alarm_duration
       /\ m.time_in_state >= p.min_drowsy_alarm_duration
    THEN "DROWSY_ALARM"
    ELSE IF /\ ScoreLE(scores.drowsiness_score, p.drowsy_recovery_threshold)
            /\ m.time_below_drowsy_recovery >= p.recovery_grace_duration
    THEN "FOCUSED"
    ELSE "DROWSY_WARNING"

\* _compute_next_state, the branch for s == DROWSY_WARNING
next_from_drowsy_warning(m, scores) ==
    LET p == m.params IN
    IF /\ ScoreGE(scores.drowsiness_score, p.drowsy_alarm_threshold)
       /\ m.time_above_drowsy_alarm >= p.min_drowsy_alarm_duration
    THEN "DROWSY_ALARM"
    ELSE IF /\ ScoreLE(scores.drowsiness_score, p.drowsy_recovery_threshold)
            /\ m.time_below_drowsy_recovery >= p.recovery_grace_duration
    THEN "FOCUSED"
    ELSE "DROWSY_WARNING"

\* Mutant of next_from_drowsy_alarm: the distracted-alarm condition is also
\* tested in DROWSY_ALARM, so the machine can jump across branches.
next_from_drowsy_alarm_cross(m, scores) ==
    LET p == m.params IN
    IF /\ ScoreGE(scores.distraction_score, p.distracted_alarm_threshold)
       /\ m.time_above_distracted_alarm >= p.min_distracted_alarm_duration
    THEN "DISTRACTED_ALARM"
    ELSE IF /\ ScoreLE(scores.drowsiness_score, p.drowsy_recovery_threshold)
            /\ m.time_below_drowsy_recovery >= p.recovery_grace_duration
    THEN "FOCUSED"
    ELSE "DROWSY_ALARM"

\* The DROWSY_ALARM branch falling back to DROWSY_WARNING when the score is
\* below the alarm threshold.
next_from_drowsy_alarm_demotes(m, scores) ==
    LET p == m.params IN
    IF /\ ScoreLE(scores.drowsiness_score, p.drowsy_recovery_threshold)
       /\ m.time_below_drowsy_recovery >= p.recovery_grace_duration
    THEN "FOCUSED"
    ELSE IF ~ScoreGE(scores.drowsiness_score, p.drowsy_alarm_threshold)
    THEN "DROWSY_WARNING"
    ELSE "DROWSY_ALARM"

\* _compute_next_state, the branch for s == DROWSY_ALARM
next_from_drowsy_alarm(m, scores) ==
    LET p == m.params IN
    IF /\ ScoreLE(scores.drowsiness_score, p.drowsy_recovery_threshold)
       /\ m.time_below_drowsy_recovery >= p.recovery_grace_duration
    THEN "FOCUSED"
    ELSE "DROWSY_ALARM"

\* _compute_next_state, the branch for s == DISTRACTED_WARNING
next_from_distracted_warning(m, scores) ==
    LET p == m.params IN
    IF /\ ScoreGE(scores.distraction_score, p.distracted_alarm_threshold)
       /\ m.time_above_distracted_alarm >= p.min_distracted_alarm_duration
    THEN "DISTRACTED_ALARM"
    ELSE IF /\ ScoreLE(scores.distraction_score, p.distracted_recovery_threshold)
            /\ m.time_below_distracted_recovery >= p.recovery_grace_duration
    THEN "FOCUSED"
    ELSE "DISTRACTED_WARNING"

\* The DISTRACTED_ALARM branch recovering without the grace duration.
next_from_distracted_alarm_no_grace(m, scores) ==
    LET p == m.params IN
    IF ScoreLE(scores.distraction_score, p.distracted_recovery_threshold)
    THEN "FOCUSED"
    ELSE "DISTRACTED_ALARM"

\* _compute_next_state, the branch for s == DISTRACTED_ALARM
next_from_distracted_alarm(m, scores) ==
    LET p == m.params IN
    IF /\ ScoreLE(scores.distraction_score, p.distracted_recovery_threshold)
       /\ m.time_below_distracted_recovery >= p.recovery_grace_duration
    THEN "FOCUSED"
    ELSE "DISTRACTED_ALARM"

\* FocusStateMachine._compute_next_state
compute_next_state(m, scores) ==
    CASE m.state = "FOCUSED" -> next_from_focused(m, scores)
      [] m.state = "DROWSY_WARNING" -> next_from_drowsy_warning(m, scores)
      [] m.state = "DROWSY_ALARM" -> next_from_drowsy_alarm(m, scores)
      [] m.state = "DISTRACTED_WARNING" ->
             next_from_distracted_warning(m, scores)
      [] m.state = "DISTRACTED_ALARM" -> next_from_distracted_alarm(m, scores)
      [] OTHER -> "FOCUSED"

\* _event_type_for_state with the DISTRACTED_WARNING entry copied from the
\* DROWSY_WARNING entry.
event_type_for_state_copied(state) ==
    IF state = "FOCUSED" THEN "ENTER_FOCUSED"
    ELSE IF state = "DROWSY_WARNING" THEN "ENTER_DROWSY_WARNING"
    ELSE IF state = "DROWSY_ALARM" THEN "ENTER_DROWSY_ALARM"
    ELSE IF state = "DISTRACTED_WARNING" THEN "ENTER_DROWSY_WARNING"
    ELSE "ENTER_DISTRACTED_ALARM"

\* FocusStateMachine._event_type_for_state
event_type_for_state(state) ==
    IF state = "FOCUSED" THEN "ENTER_FOCUSED"
    ELSE IF state = "DROWSY_WARNING" THEN "ENTER_DROWSY_WARNING"
    ELSE IF state = "DROWSY_ALARM" THEN "ENTER_DROWSY_ALARM"
    ELSE IF state = "DISTRACTED_WARNING" THEN "ENTER_DISTRACTED_WARNING"
    ELSE "ENTER_DISTRACTED_ALARM"

\* The FocusEvent that update builds on a state change.
FocusEvent(timestamp, from_state, to_state, scores) ==
    [timestamp |-> timestamp,
     event_type |-> event_type_for_state(to_state),
     from_state |-> from_state,
     to_state |-> to_state,
     drowsiness_score |-> scores.drowsiness_score,
     distraction_score |-> scores.distraction_score]

\* Mutant of FocusStateMachine_update: self.state is assigned before the
\* event is built, so the event's from_state is the new state.
FocusStateMachine_update_late_event(m, timestamp, scores) ==
    LET dt == IF m.last_timestamp = None
              THEN 0
              ELSE Max(0, timestamp - Get(m.last_timestamp))
        m1 == [m EXCEPT !.last_timestamp = Some(timestamp),
                        !.time_in_state = @ + dt]
        m2 == update_timers(m1, dt, scores)
        new_state == compute_next_state(m2, scores)
        changed == new_state # m2.state
        m3 == IF changed
              THEN [m2 EXCEPT !.state = new_state, !.time_in_state = 0]
              ELSE m2
    IN [machine |-> m3,
        state |-> m3.state,
        event |-> IF changed
                  THEN Some(FocusEvent(timestamp, m3.state, new_state, scores))
                  ELSE None]

\* FocusStateMachine.update taking a missing last_timestamp for 0, so that
\* the first call has dt = timestamp.
FocusStateMachine_update_first_dt(m, timestamp, scores) ==
    LET dt == IF m.last_timestamp = None
              THEN Max(0, timestamp)
              ELSE Max(0, timestamp - Get(m.last_timestamp))
        m1 == [m EXCEPT !.last_timestamp = Some(timestamp),
                        !.time_in_state = @ + dt]
        m2 == update_timers(m1, dt, scores)
        new_state == compute_next_state(m2, scores)
        changed == new_state # m2.state
        m3 == IF changed
              THEN [m2 EXCEPT !.state = new_state, !.time_in_state = 0]
              ELSE m2
    IN [machine |-> m3,
        state |-> m3.state,
        event |-> IF changed
                  THEN Some(FocusEvent(timestamp, m2.state, new_state, scores))
                  ELSE None]

\* FocusStateMachine.update counting one second for every call after the
\* first instead of the time between the timestamps.
FocusStateMachine_update_fixed_tick(m, timestamp, scores) ==
    LET dt == IF m.last_timestamp = None THEN 0 ELSE 10
        m1 == [m EXCEPT !.last_timestamp = Some(timestamp),
                        !.time_in_state = @ + dt]
        m2 == update_timers(m1, dt, scores)
        new_state == compute_next_state(m2, scores)
        changed == new_state # m2.state
        m3 == IF changed
              THEN [m2 EXCEPT !.state = new_state, !.time_in_state = 0]
              ELSE m2
    IN [machine |-> m3,
        state |-> m3.state,
        event |-> IF changed
                  THEN Some(FocusEvent(timestamp, m2.state, new_state, scores))
                  ELSE None]

\* FocusStateMachine.update: the machine after the call and the returned
\* (state, event) pair.
FocusStateMachine_update(m, timestamp, scores) ==
    LET dt == IF m.last_timestamp = None
              THEN 0
              ELSE Max(0, timestamp - Get(m.last_timestamp))
        m1 == [m EXCEPT !.last_timestamp = Some(timestamp),
                        !.time_in_state = @ + dt]
        m2 == update_timers(m1, dt, scores)
        new_state == compute_next_state(m2, scores)
        changed == new_state # m2.state
        m3 == IF changed
              THEN [m2 EXCEPT !.state = new_state, !.time_in_state = 0]
              ELSE m2
    IN [machine |-> m3,
        state |-> m3.state,
        event |-> IF changed
                  THEN Some(FocusEvent(timestamp, m2.state, new_state, scores))
                  ELSE None]

----------------------------------------------------------------------------
(* src/core/alarms.py *)

AlarmKind == {"DROWSY", "DISTRACTED"}

\* float("-inf"), the initial last-alarm time.
NegInf == << >>

\* AlarmConfig(): cooldown_seconds = 10.0
AlarmConfig == [cooldown_seconds |-> 100]

\* AlarmController.__init__
AlarmController_init(config) ==
    [config |-> config,
     last_alarm_time |-> [k \in AlarmKind |-> NegInf]]

\* Mutant of alarm_kind_for_event: entering a warning state counts as an
\* alarm too.
alarm_kind_for_event_warnings(event) ==
    IF event.event_type \in {"ENTER_DROWSY_ALARM", "ENTER_DROWSY_WARNING"}
    THEN Some("DROWSY")
    ELSE IF event.event_type \in
                {"ENTER_DISTRACTED_ALARM", "ENTER_DISTRACTED_WARNING"}
    THEN Some("DISTRACTED")
    ELSE None

\* AlarmController._alarm_kind_for_event
alarm_kind_for_event(event) ==
    IF event.event_type = "ENTER_DROWSY_ALARM" THEN Some("DROWSY")
    ELSE IF event.event_type = "ENTER_DISTRACTED_ALARM" THEN Some("DISTRACTED")
    ELSE None

\* Mutant of in_cooldown: an event exactly cooldown_seconds after the last
\* alarm is still suppressed.
in_cooldown_inclusive(timestamp, last_time, cooldown_seconds) ==
    IF last_time = NegInf
    THEN FALSE
    ELSE timestamp - Get(last_time) <= cooldown_seconds

\* delta < cooldown_seconds, where delta = timestamp - last_time and
\* timestamp - (-inf) = +inf is below no cooldown.
in_cooldown(timestamp, last_time, cooldown_seconds) ==
    IF last_time = NegInf
    THEN FALSE
    ELSE timestamp - Get(last_time) < cooldown_seconds

\* Mutant of process_event: a fired alarm is not recorded.
process_event_no_store(c, event) ==
    LET kind == alarm_kind_for_event(event) IN
    IF kind = None
    THEN [controller |-> c, result |-> None]
    ELSE LET last_time == c.last_alarm_time[Get(kind)] IN
         IF in_cooldown(event.timestamp, last_time, c.config.cooldown_seconds)
         THEN [controller |-> c, result |-> None]
         ELSE [controller |-> c, result |-> kind]

\* Mutant of process_event: one cooldown clock shared by both kinds.
process_event_shared_clock(c, event) ==
    LET kind == alarm_kind_for_event(event) IN
    IF kind = None
    THEN [controller |-> c, result |-> None]
    ELSE LET last_time == c.last_alarm_time[Get(kind)] IN
         IF in_cooldown(event.timestamp, last_time, c.config.cooldown_seconds)
         THEN [controller |-> c, result |-> None]
         ELSE [controller |->
                   [c EXCEPT !.last_alarm_time =
                                 [k \in AlarmKind |-> Some(event.timestamp)]],
               result |-> kind]

\* AlarmController.process_event: the controller after the call and the
\* returned Optional[AlarmKind].
process_event(c, event) ==
    LET kind == alarm_kind_for_event(event) IN
    IF kind = None
    THEN [controller |-> c, result |-> None]
    ELSE LET last_time == c.last_alarm_time[Get(kind)] IN
         IF in_cooldown(event.timestamp, last_time, c.config.cooldown_seconds)
         THEN [controller |-> c, result |-> None]
         ELSE [controller |->
                   [c EXCEPT !.last_alarm_time[Get(kind)] =
                                 Some(event.timestamp)],
               result |-> kind]

----------------------------------------------------------------------------
(* src/core/signals.py *)

\* SignalConfig(): the dataclass defaults, with the window as a parameter.
SignalConfig(window_duration_seconds) ==
    [window_duration_seconds |-> window_duration_seconds,
     eye_aspect_ratio_threshold |-> 22,
     minimum_blink_duration_seconds |-> 1,
     minimum_long_blink_duration_seconds |-> 4,
     baseline_blink_rate_per_minute |-> 20,
     drowsiness_long_blink_weight |-> 350,
     drowsiness_blink_rate_weight |-> 15,
     distraction_face_missing_weight |-> 1000]

\* SignalProcessor.__init__
SignalProcessor_init(config) ==
    [config |-> config,
     sample_timestamps |-> << >>,
     sample_face_present_flags |-> << >>,
     sample_count |-> 0,
     sample_count_face_present |-> 0,
     blink_event_timestamps |-> << >>,
     long_blink_event_timestamps |-> << >>,
     current_blink_active |-> FALSE,
     current_blink_start_timestamp |-> None]

\* _update_samples counting every sample as one with a face.
update_samples_all_present(sp, timestamp, face_present) ==
    [sp EXCEPT
        !.sample_timestamps = Append(@, timestamp),
        !.sample_face_present_flags = Append(@, face_present),
        !.sample_count = @ + 1,
        !.sample_count_face_present = @ + 1]

\* SignalProcessor._update_samples
update_samples(sp, timestamp, face_present) ==
    [sp EXCEPT
        !.sample_timestamps = Append(@, timestamp),
        !.sample_face_present_flags = Append(@, face_present),
        !.sample_count = @ + 1,
        !.sample_count_face_present = IF face_present THEN @ + 1 ELSE @]

\* Mutant of prune_samples: "if" for "while", at most one sample is popped.
prune_samples_once(sp, cutoff) ==
    IF sp.sample_timestamps # << >> /\ Head(sp.sample_timestamps) < cutoff
    THEN [sp EXCEPT
             !.sample_face_present_flags = Tail(@),
             !.sample_timestamps = Tail(@),
             !.sample_count = @ - 1,
             !.sample_count_face_present =
                 IF Head(sp.sample_face_present_flags) THEN @ - 1 ELSE @]
    ELSE sp

\* The first while loop of _prune_old: pops the two sample deques together.
RECURSIVE prune_samples(_, _)
prune_samples(sp, cutoff) ==
    IF sp.sample_timestamps # << >> /\ Head(sp.sample_timestamps) < cutoff
    THEN prune_samples(
             [sp EXCEPT
                 !.sample_face_present_flags = Tail(@),
                 !.sample_timestamps = Tail(@),
                 !.sample_count = @ - 1,
                 !.sample_count_face_present =
                     IF Head(sp.sample_face_present_flags) THEN @ - 1 ELSE @],
             cutoff)
    ELSE sp

\* The second and third while loops of _prune_old: popleft while the
\* oldest entry is before the cutoff.
RECURSIVE prune_queue(_, _)
prune_queue(q, cutoff) ==
    IF q # << >> /\ Head(q) < cutoff
    THEN prune_queue(Tail(q), cutoff)
    ELSE q

\* Mutant of prune_old: the sample deques are never pruned.
prune_old_blinks_only(sp, timestamp) ==
    LET cutoff == timestamp - sp.config.window_duration_seconds
    IN [sp EXCEPT
           !.blink_event_timestamps = prune_queue(@, cutoff),
           !.long_blink_event_timestamps = prune_queue(@, cutoff)]

\* SignalProcessor._prune_old
prune_old(sp, timestamp) ==
    LET cutoff == timestamp - sp.config.window_duration_seconds
        sp1 == prune_samples(sp, cutoff)
    IN [sp1 EXCEPT
           !.blink_event_timestamps = prune_queue(@, cutoff),
           !.long_blink_event_timestamps = prune_queue(@, cutoff)]

\* The minimum_eye_aspect_ratio that update passes to _update_blinks.
minimum_eye_aspect_ratio(face_present, left_eye_ear, right_eye_ear) ==
    IF face_present /\ left_eye_ear # None /\ right_eye_ear # None
    THEN Some(Min(Get(left_eye_ear), Get(right_eye_ear)))
    ELSE None

\* _update_blinks with the long-blink test beside the blink test instead of
\* inside it.
update_blinks_long_unnested(sp, timestamp, min_ear) ==
    LET eye_closed ==
            /\ min_ear # None
            /\ Get(min_ear) < sp.config.eye_aspect_ratio_threshold
    IN
    IF eye_closed /\ ~sp.current_blink_active
    THEN [sp EXCEPT !.current_blink_active = TRUE,
                    !.current_blink_start_timestamp = Some(timestamp)]
    ELSE IF ~eye_closed /\ sp.current_blink_active
    THEN LET blink_duration ==
                 timestamp - Get(sp.current_blink_start_timestamp)
             is_blink ==
                 blink_duration >= sp.config.minimum_blink_duration_seconds
             is_long ==
                 blink_duration
                     >= sp.config.minimum_long_blink_duration_seconds
         IN [sp EXCEPT
                !.blink_event_timestamps =
                    IF is_blink THEN Append(@, timestamp) ELSE @,
                !.long_blink_event_timestamps =
                    IF is_long THEN Append(@, timestamp) ELSE @,
                !.current_blink_active = FALSE,
                !.current_blink_start_timestamp = None]
    ELSE sp

\* _update_blinks leaving current_blink_start_timestamp set when the blink
\* ends.
update_blinks_keeps_start(sp, timestamp, min_ear) ==
    LET eye_closed ==
            /\ min_ear # None
            /\ Get(min_ear) < sp.config.eye_aspect_ratio_threshold
    IN
    IF eye_closed /\ ~sp.current_blink_active
    THEN [sp EXCEPT !.current_blink_active = TRUE,
                    !.current_blink_start_timestamp = Some(timestamp)]
    ELSE IF ~eye_closed /\ sp.current_blink_active
    THEN LET blink_duration ==
                 timestamp - Get(sp.current_blink_start_timestamp)
             is_blink ==
                 blink_duration >= sp.config.minimum_blink_duration_seconds
             is_long ==
                 /\ is_blink
                 /\ blink_duration
                        >= sp.config.minimum_long_blink_duration_seconds
         IN [sp EXCEPT
                !.blink_event_timestamps =
                    IF is_blink THEN Append(@, timestamp) ELSE @,
                !.long_blink_event_timestamps =
                    IF is_long THEN Append(@, timestamp) ELSE @,
                !.current_blink_active = FALSE]
    ELSE sp

\* SignalProcessor._update_blinks
update_blinks(sp, timestamp, min_ear) ==
    LET eye_closed ==
            /\ min_ear # None
            /\ Get(min_ear) < sp.config.eye_aspect_ratio_threshold
    IN
    IF eye_closed /\ ~sp.current_blink_active
    THEN [sp EXCEPT !.current_blink_active = TRUE,
                    !.current_blink_start_timestamp = Some(timestamp)]
    ELSE IF ~eye_closed /\ sp.current_blink_active
    THEN LET blink_duration ==
                 timestamp - Get(sp.current_blink_start_timestamp)
             is_blink ==
                 blink_duration >= sp.config.minimum_blink_duration_seconds
             is_long ==
                 /\ is_blink
                 /\ blink_duration
                        >= sp.config.minimum_long_blink_duration_seconds
         IN [sp EXCEPT
                !.blink_event_timestamps =
                    IF is_blink THEN Append(@, timestamp) ELSE @,
                !.long_blink_event_timestamps =
                    IF is_long THEN Append(@, timestamp) ELSE @,
                !.current_blink_active = FALSE,
                !.current_blink_start_timestamp = None]
    ELSE sp

\* The clamp without its upper end: max(0.0, score).
clamp_score_lower_only(s) ==
    IF s.num < 0 THEN Score(0) ELSE s

\* max(0.0, min(100.0, score)) on a fraction.
clamp_score(s) ==
    IF s.num < 0 THEN Score(0)
    ELSE IF s.num > 100 * s.den THEN Score(100)
    ELSE s

\* The window_span that _compute_scores derives (tenths of a second).
window_span(sp) ==
    LET window == sp.config.window_duration_seconds
        raw == IF sp.sample_count >= 2
               THEN LET span == sp.sample_timestamps[Len(sp.sample_timestamps)]
                                    - sp.sample_timestamps[1]
                    IN IF span <= 0 THEN window ELSE span
               ELSE window
        capped == Min(raw, window)
    IN IF capped <= 0 THEN window ELSE capped

\* _compute_scores counting a window without samples as a window without a
\* face.
compute_scores_empty_missing(sp) ==
    IF sp.sample_count <= 0
    THEN [drowsiness_score |-> Score(0),
          distraction_score |->
              clamp_score([num |-> sp.config.distraction_face_missing_weight,
                           den |-> 10]),
          blink_rate_per_minute |-> Score(0),
          long_blink_count |-> 0,
          fraction_face_missing |-> Score(1)]
    ELSE
    LET span == window_span(sp)
        blink_count == Len(sp.blink_event_timestamps)
        long_blink_count == Len(sp.long_blink_event_timestamps)
        \* blink_count * 60.0 / window_span, the span being in tenths of a second
        blink_rate_per_minute ==
            IF blink_count > 0
            THEN [num |-> blink_count * 600, den |-> span]
            ELSE Score(0)
        fraction_face_missing ==
            [num |-> sp.sample_count - sp.sample_count_face_present,
             den |-> sp.sample_count]
        \* max(0.0, blink_rate_per_minute - baseline), over blink_rate's den
        excess_num ==
            Max(0, blink_rate_per_minute.num
                       - sp.config.baseline_blink_rate_per_minute
                             * blink_rate_per_minute.den)
        \* the weights are in tenths: the sum is over 10 * den
        drowsiness_score ==
            [num |-> sp.config.drowsiness_long_blink_weight * long_blink_count
                         * blink_rate_per_minute.den
                     + sp.config.drowsiness_blink_rate_weight * excess_num,
             den |-> 10 * blink_rate_per_minute.den]
        distraction_score ==
            [num |-> sp.config.distraction_face_missing_weight
                         * fraction_face_missing.num,
             den |-> 10 * fraction_face_missing.den]
    IN [drowsiness_score |-> clamp_score(drowsiness_score),
        distraction_score |-> clamp_score(distraction_score),
        blink_rate_per_minute |-> blink_rate_per_minute,
        long_blink_count |-> long_blink_count,
        fraction_face_missing |-> fraction_face_missing]

\* SignalProcessor._compute_scores
compute_scores(sp) ==
    IF sp.sample_count <= 0
    THEN [drowsiness_score |-> Score(0),
          distraction_score |-> Score(0),
          blink_rate_per_minute |-> Score(0),
          long_blink_count |-> 0,
          fraction_face_missing |-> Score(0)]
    ELSE
    LET span == window_span(sp)
        blink_count == Len(sp.blink_event_timestamps)
        long_blink_count == Len(sp.long_blink_event_timestamps)
        \* blink_count * 60.0 / window_span, the span being in tenths of a second
        blink_rate_per_minute ==
            IF blink_count > 0
            THEN [num |-> blink_count * 600, den |-> span]
            ELSE Score(0)
        fraction_face_missing ==
            [num |-> sp.sample_count - sp.sample_count_face_present,
             den |-> sp.sample_count]
        \* max(0.0, blink_rate_per_minute - baseline), over blink_rate's den
        excess_num ==
            Max(0, blink_rate_per_minute.num
                       - sp.config.baseline_blink_rate_per_minute
                             * blink_rate_per_minute.den)
        \* the weights are in tenths: the sum is over 10 * den
        drowsiness_score ==
            [num |-> sp.config.drowsiness_long_blink_weight * long_blink_count
                         * blink_rate_per_minute.den
                     + sp.config.drowsiness_blink_rate_weight * excess_num,
             den |-> 10 * blink_rate_per_minute.den]
        distraction_score ==
            [num |-> sp.config.distraction_face_missing_weight
                         * fraction_face_missing.num,
             den |-> 10 * fraction_face_missing.den]
    IN [drowsiness_score |-> clamp_score(drowsiness_score),
        distraction_score |-> clamp_score(distraction_score),
        blink_rate_per_minute |-> blink_rate_per_minute,
        long_blink_count |-> long_blink_count,
        fraction_face_missing |-> fraction_face_missing]

\* SignalProcessor.update: the processor after the call and the returned
\* SignalScores.
SignalProcessor_update(sp, timestamp, face_present, left_eye_ear, right_eye_ear) ==
    LET sp1 == prune_old(sp, timestamp)
        sp2 == update_samples(sp1, timestamp, face_present)
        min_ear == minimum_eye_aspect_ratio(face_present, left_eye_ear,
                                            right_eye_ear)
        sp3 == update_blinks(sp2, timestamp, min_ear)
    IN [processor |-> sp3, scores |-> compute_scores(sp3)]

----------------------------------------------------------------------------
(* src/core/session.py *)

\* SessionConfig(detect_drowsiness, detect_distraction); the core never
\* reads target_duration_seconds.
SessionConfig(detect_drowsiness, detect_distraction) ==
    [detect_drowsiness |-> detect_drowsiness,
     detect_distraction |-> detect_distraction]

\* datetime.now(): only whether a wall-clock time is set is modelled.
WallClockNow == "now"

\* FocusSession.__init__ (the state machine and the signal processor it
\* constructs are the variables machine and processor).
FocusSession_init(config) ==
    [config |-> config,
     start_time_wall |-> None,
     end_time_wall |-> None,
     start_time_mono |-> None,
     end_time_mono |-> None,
     last_timestamp |-> None,
     last_state |-> None,
     last_scores |-> None,
     durations_by_state |-> [state \in FocusState |-> 0],
     events |-> << >>]

\* raise RuntimeError(...): nothing is assigned before either raise.
Raised(s, m, sp) ==
    [raised |-> TRUE, session |-> s, machine |-> m, processor |-> sp]

\* FocusSession.start without self.events.clear().
FocusSession_start_keeps_log(s, m, sp, timestamp) ==
    [session |->
         [s EXCEPT
             !.start_time_wall = Some(WallClockNow),
             !.start_time_mono = Some(timestamp),
             !.last_timestamp = None,
             !.last_state = Some(m.state),
             !.last_scores = None,
             !.durations_by_state = [state \in FocusState |-> 0]],
     machine |-> m,
     processor |-> sp]

\* FocusSession.start also putting the state machine back to its state
\* after construction.
FocusSession_start_new_machine(s, m, sp, timestamp) ==
    [session |->
         [s EXCEPT
             !.start_time_wall = Some(WallClockNow),
             !.start_time_mono = Some(timestamp),
             !.last_timestamp = None,
             !.last_state = Some("FOCUSED"),
             !.last_scores = None,
             !.durations_by_state = [state \in FocusState |-> 0],
             !.events = << >>],
     machine |-> FocusStateMachine_init(m.params),
     processor |-> sp]

\* FocusSession.start: the three objects after the call. It assigns fields
\* of the session only and reads the state of the machine.
FocusSession_start(s, m, sp, timestamp) ==
    [session |->
         [s EXCEPT
             !.start_time_wall = Some(WallClockNow),
             !.start_time_mono = Some(timestamp),
             !.last_timestamp = None,
             !.last_state = Some(m.state),
             !.last_scores = None,
             !.durations_by_state = [state \in FocusState |-> 0],
             !.events = << >>],
     machine |-> m,
     processor |-> sp]

\* The elapsed time without the clamp max(0.0, ...).
add_elapsed_unclamped(s, timestamp) ==
    IF s.last_timestamp # None /\ s.last_state # None
    THEN LET dt == timestamp - Get(s.last_timestamp)
         IN [s EXCEPT !.durations_by_state[Get(s.last_state)] = @ + dt]
    ELSE s

\* The elapsed time that update and end add to the bucket of last_state.
add_elapsed(s, timestamp) ==
    IF s.last_timestamp # None /\ s.last_state # None
    THEN LET dt == Max(0, timestamp - Get(s.last_timestamp))
         IN [s EXCEPT !.durations_by_state[Get(s.last_state)] = @ + dt]
    ELSE s

\* _apply_detection_mask passing the raw scores on whatever the switches.
apply_detection_mask_ignored(s, scores) ==
    scores

\* FocusSession._apply_detection_mask
apply_detection_mask(s, scores) ==
    [scores EXCEPT
        !.drowsiness_score =
            IF s.config.detect_drowsiness THEN @ ELSE Score(0),
        !.distraction_score =
            IF s.config.detect_distraction THEN @ ELSE Score(0)]

\* FocusSession.update crediting the elapsed time to the state the machine
\* has just entered instead of the state that was active.
FocusSession_update_credit_new(s, m, sp, timestamp, metrics) ==
    IF s.start_time_mono = None
    THEN Raised(s, m, sp)
    ELSE
    LET from_processor ==
            SignalProcessor_update(sp, timestamp, metrics.face_present,
                                   metrics.left_eye_ear, metrics.right_eye_ear)
        scores == apply_detection_mask(s, from_processor.scores)
        from_machine == FocusStateMachine_update(m, timestamp, scores)
        s1 == add_elapsed([s EXCEPT !.last_state = Some(from_machine.state)],
                          timestamp)
    IN [raised |-> FALSE,
        session |->
            [s1 EXCEPT
                !.events = IF from_machine.event # None
                           THEN Append(@, Get(from_machine.event))
                           ELSE @,
                !.last_timestamp = Some(timestamp),
                !.last_state = Some(from_machine.state),
                !.last_scores = Some(scores)],
        machine |-> from_machine.machine,
        processor |-> from_processor.processor,
        state |-> from_machine.state,
        scores |-> scores,
        event |-> from_machine.event]

\* FocusSession.update: whether it raised, the three objects after the call
\* and the returned (state, scores, event).
FocusSession_update(s, m, sp, timestamp, metrics) ==
    IF s.start_time_mono = None
    THEN Raised(s, m, sp)
    ELSE
    LET s1 == add_elapsed(s, timestamp)
        from_processor ==
            SignalProcessor_update(sp, timestamp, metrics.face_present,
                                   metrics.left_eye_ear, metrics.right_eye_ear)
        scores == apply_detection_mask(s1, from_processor.scores)
        from_machine == FocusStateMachine_update(m, timestamp, scores)
    IN [raised |-> FALSE,
        session |->
            [s1 EXCEPT
                !.events = IF from_machine.event # None
                           THEN Append(@, Get(from_machine.event))
                           ELSE @,
                !.last_timestamp = Some(timestamp),
                !.last_state = Some(from_machine.state),
                !.last_scores = Some(scores)],
        machine |-> from_machine.machine,
        processor |-> from_processor.processor,
        state |-> from_machine.state,
        scores |-> scores,
        event |-> from_machine.event]

\* FocusSession.end without the "Session not started" guard.
FocusSession_end_unguarded(s, m, sp, timestamp) ==
    [raised |-> FALSE,
     session |-> [add_elapsed(s, timestamp) EXCEPT
                     !.end_time_mono = Some(timestamp),
                     !.end_time_wall = Some(WallClockNow)],
     machine |-> m,
     processor |-> sp]

\* FocusSession.end
FocusSession_end(s, m, sp, timestamp) ==
    IF s.start_time_mono = None
    THEN Raised(s, m, sp)
    ELSE [raised |-> FALSE,
          session |-> [add_elapsed(s, timestamp) EXCEPT
                          !.end_time_mono = Some(timestamp),
                          !.end_time_wall = Some(WallClockNow)],
          machine |-> m,
          processor |-> sp]

\* FocusSession.summary raising also when the session saw no update.
FocusSession_summary_needs_update(s) ==
    IF \/ s.start_time_wall = None
       \/ s.end_time_wall = None
       \/ s.start_time_mono = None
       \/ s.end_time_mono = None
       \/ s.last_timestamp = None
    THEN [raised |-> TRUE]
    ELSE [raised |-> FALSE,
          stats |->
              [start_time |-> Get(s.start_time_wall),
               end_time |-> Get(s.end_time_wall),
               duration_seconds |->
                   Max(0, Get(s.end_time_mono) - Get(s.start_time_mono)),
               focused_seconds |-> s.durations_by_state["FOCUSED"],
               drowsy_seconds |->
                   s.durations_by_state["DROWSY_WARNING"]
                       + s.durations_by_state["DROWSY_ALARM"],
               distracted_seconds |->
                   s.durations_by_state["DISTRACTED_WARNING"]
                       + s.durations_by_state["DISTRACTED_ALARM"],
               events |-> s.events]]

\* FocusSession.summary: whether it raised and the returned SessionStats.
FocusSession_summary(s) ==
    IF \/ s.start_time_wall = None
       \/ s.end_time_wall = None
       \/ s.start_time_mono = None
       \/ s.end_time_mono = None
    THEN [raised |-> TRUE]
    ELSE [raised |-> FALSE,
          stats |->
              [start_time |-> Get(s.start_time_wall),
               end_time |-> Get(s.end_time_wall),
               duration_seconds |->
                   Max(0, Get(s.end_time_mono) - Get(s.start_time_mono)),
               focused_seconds |-> s.durations_by_state["FOCUSED"],
               drowsy_seconds |->
                   s.durations_by_state["DROWSY_WARNING"]
                       + s.durations_by_state["DROWSY_ALARM"],
               distracted_seconds |->
                   s.durations_by_state["DISTRACTED_WARNING"]
                       + s.durations_by_state["DISTRACTED_ALARM"],
               events |-> s.events]]

----------------------------------------------------------------------------
(* src/ui/main_window.py, src/core/camera.py *)

\* MainWindow.__init__: no session, no update timer, no camera, no frame.
\* ui is where the UI thread is (idle in the event loop or inside a
\* handler), camera where the thread of CameraCapture._run is, inside the
\* FocusSession methods being executed, each with the thread executing it.
MainWindow_init ==
    [session_open |-> FALSE,   \* self._session is not None
     timer |-> FALSE,          \* self._update_timer is running
     running |-> FALSE,        \* self._camera._running
     last_frame |-> None,      \* self._last_frame
     ui |-> "idle",
     ui_frame |-> None,        \* the frame _on_update_timer has processed
     camera |-> "off",
     camera_frame |-> None,    \* the frame _run is handing to the callback
     inside |-> {}]

\* _on_camera_frame calling update on the session with the new frame, on
\* the camera thread.
on_camera_frame_updates(a, frame) ==
    [a EXCEPT !.last_frame = Some(frame),
              !.inside = IF a.session_open
                         THEN @ \cup {<<"camera", "update">>}
                         ELSE @]

\* MainWindow._on_camera_frame, run by the camera thread.
on_camera_frame(a, frame) ==
    [a EXCEPT !.last_frame = Some(frame)]

----------------------------------------------------------------------------
(* The state machine driven by arbitrary update calls *)

\* Scores around every threshold of the two parameter sets.
ScoreValues == {40, 59, 60, 80}

\* Timestamp increments of successive update calls, one of them backwards.
MachineSteps == {-10, 0, 10}

MachineParams == {StateParams, BalancedParams}

\* A SignalScores value with the given integer scores.
SignalScores(drowsiness, distraction) ==
    [drowsiness_score |-> Score(drowsiness),
     distraction_score |-> Score(distraction),
     blink_rate_per_minute |-> Score(0),
     long_blink_count |-> 0,
     fraction_face_missing |-> Score(0)]

\* Every accumulator of the machine is within the model's bound.
DwellWithin(m) ==
    /\ m.time_in_state <= MaxDwell
    /\ m.time_above_drowsy_warning <= MaxDwell
    /\ m.time_above_drowsy_alarm <= MaxDwell
    /\ m.time_above_distracted_warning <= MaxDwell
    /\ m.time_above_distracted_alarm <= MaxDwell
    /\ m.time_below_drowsy_recovery <= MaxDwell
    /\ m.time_below_distracted_recovery <= MaxDwell

\* The six dwell timers of _update_timers.
DwellTimers ==
    {"time_above_drowsy_warning", "time_above_drowsy_alarm",
     "time_above_distracted_warning", "time_above_distracted_alarm",
     "time_below_drowsy_recovery", "time_below_distracted_recovery"}

\* The condition of _update_timers under which a timer grows, with the
\* parameters p and the scores of an update.
DwellHolds(timer, p, scores) ==
    CASE timer = "time_above_drowsy_warning" ->
             ScoreGE(scores.drowsiness_score, p.drowsy_warning_threshold)
      [] timer = "time_above_drowsy_alarm" ->
             ScoreGE(scores.drowsiness_score, p.drowsy_alarm_threshold)
      [] timer = "time_above_distracted_warning" ->
             ScoreGE(scores.distraction_score, p.distracted_warning_threshold)
      [] timer = "time_above_distracted_alarm" ->
             ScoreGE(scores.distraction_score, p.distracted_alarm_threshold)
      [] timer = "time_below_drowsy_recovery" ->
             ScoreLE(scores.drowsiness_score, p.drowsy_recovery_threshold)
      [] timer = "time_below_distracted_recovery" ->
             ScoreLE(scores.distraction_score, p.distracted_recovery_threshold)

InitMachine ==
    /\ machine \in {FocusStateMachine_init(p) : p \in MachineParams}
    /\ controller = AlarmController_init(AlarmConfig)
    /\ processor = SignalProcessor_init(SignalConfig(200))
    /\ session = FocusSession_init(SessionConfig(TRUE, TRUE))
    /\ app = MainWindow_init
    /\ call = [op |-> "init"]
    /\ ret = None
    /\ ghost = [clock |-> 0,
                monotone |-> TRUE,  \* no timestamp went back so far
                since |-> [timer \in DwellTimers |-> None]]
                                    \* per timer, while no timestamp went
                                    \* back: the timestamp of the latest
                                    \* update at which its condition did
                                    \* not hold, or of the first update if
                                    \* it held at all of them

\* One call machine.update(timestamp, scores).
MachineUpdate ==
    \E d \in MachineSteps, ds \in ScoreValues, xs \in ScoreValues :
        LET timestamp == ghost.clock + d
            scores == SignalScores(ds, xs)
        IN /\ timestamp \in 0..MaxTime
           /\ \E r \in {FocusStateMachine_update(machine, timestamp, scores)} :
                  /\ DwellWithin(r.machine)
                  /\ machine' = r.machine
                  /\ ret' = [state |-> r.state, event |-> r.event]
           /\ call' = [op |-> "FocusStateMachine.update",
                       timestamp |-> timestamp,
                       scores |-> scores]
           /\ ghost' = [clock |-> timestamp,
                        monotone |-> ghost.monotone /\ d >= 0,
                        since |->
                            [timer \in DwellTimers |->
                                IF ~(ghost.monotone /\ d >= 0)
                                THEN None
                                ELSE IF \/ ghost.since[timer] = None
                                        \/ ~DwellHolds(timer, machine.params,
                                                       scores)
                                THEN Some(timestamp)
                                ELSE ghost.since[timer]]]
           /\ UNCHANGED <<controller, processor, session, app>>

NextMachine == MachineUpdate

SpecMachine == InitMachine /\ [][NextMachine]_vars

DrowsyStates == {"DROWSY_WARNING", "DROWSY_ALARM"}
DistractedStates == {"DISTRACTED_WARNING", "DISTRACTED_ALARM"}

\* C1: no single update moves the machine from a Drowsy* state to a
\* Distracted* state or from a Distracted* state to a Drowsy* state; so from
\* DROWSY_ALARM no distraction score, however long it is held, leads directly
\* to DISTRACTED_ALARM.
C1_NoCrossBranchJump ==
    [][/\ ~(machine.state \in DrowsyStates /\ machine'.state \in DistractedStates)
       /\ ~(machine.state \in DistractedStates /\ machine'.state \in DrowsyStates)
      ]_vars

\* C1 witness: an update that began and ended in DROWSY_ALARM although the
\* distraction score was at the distracted-alarm threshold and had been for
\* the minimum distracted-alarm duration.
C1_Witness ==
    /\ call.op = "FocusStateMachine.update"
    /\ machine.state = "DROWSY_ALARM"
    /\ ret.event = None
    /\ ScoreGE(call.scores.distraction_score,
               machine.params.distracted_alarm_threshold)
    /\ machine.time_above_distracted_alarm
           >= machine.params.min_distracted_alarm_duration
    /\ machine.params.min_distracted_alarm_duration > 0

\* C2: a step changes machine.state only if it is an update that returns an
\* event whose from_state is the old state and whose to_state is the new
\* state, and it leaves time_in_state at zero; an update that leaves the
\* state unchanged returns no event.
C2_EventIffStateChange ==
    [][/\ machine'.state # machine.state =>
              /\ call'.op = "FocusStateMachine.update"
              /\ ret'.event # None
              /\ Get(ret'.event).from_state = machine.state
              /\ Get(ret'.event).to_state = machine'.state
              /\ machine'.time_in_state = 0
       /\ (call'.op = "FocusStateMachine.update"
             /\ machine'.state = machine.state) =>
              ret'.event = None
      ]_vars

\* C2 witness: an update has just changed the state and returned its event.
C2_Witness ==
    /\ call.op = "FocusStateMachine.update"
    /\ ret.event # None
    /\ Get(ret.event).to_state = machine.state
    /\ Get(ret.event).from_state # machine.state
    /\ machine.time_in_state = 0

----------------------------------------------------------------------------
(* The hysteresis scenario: a fresh machine with the default parameters is  *)
(* fed a drowsiness score of exactly 60 from its first update (at t0) up to *)
(* and including the update at t0 + hold, and a score of 0 afterwards.      *)

\* The two hold durations of the scenario: 2.9 s and 3.1 s.
HoldDurations == {29, 31}

\* The machine goes on being updated for this long after the hold.
HystTail == 35

HystStarts == {0, 3}
HystSteps == {1, 4, 10}

InitHysteresis ==
    /\ machine = FocusStateMachine_init(StateParams)
    /\ controller = AlarmController_init(AlarmConfig)
    /\ processor = SignalProcessor_init(SignalConfig(200))
    /\ session = FocusSession_init(SessionConfig(TRUE, TRUE))
    /\ app = MainWindow_init
    /\ call = [op |-> "init"]
    /\ ret = None
    /\ \E t0 \in HystStarts, hold \in HoldDurations :
           ghost = [clock |-> None,     \* the timestamp of the last update
                    t0 |-> t0,
                    hold |-> hold,
                    enters |-> 0,       \* ENTER_DROWSY_WARNING events so far
                    enter_ts |-> None,  \* the timestamp of the first of these
                    reach_ts |-> None]  \* the first update at or after
                                        \* t0 + min_drowsy_warning_duration
                                        \* at which the score was still held

\* One update of the scenario; the distraction score is arbitrary.
HysteresisUpdate ==
    \E d \in HystSteps, xs \in {0, 80} :
        LET end_of_hold == ghost.t0 + ghost.hold
            timestamp == IF ghost.clock = None
                         THEN ghost.t0
                         ELSE Get(ghost.clock) + d
            held == timestamp <= end_of_hold
            scores == SignalScores(IF held THEN 60 ELSE 0, xs)
        IN \* the update at the end of the hold is not skipped
           /\ (ghost.clock # None /\ Get(ghost.clock) < end_of_hold)
                  => timestamp <= end_of_hold
           /\ timestamp <= end_of_hold + HystTail
           /\ \E r \in {FocusStateMachine_update(machine, timestamp, scores)} :
                  LET entered ==
                          /\ r.event # None
                          /\ Get(r.event).event_type = "ENTER_DROWSY_WARNING"
                      reached ==
                          /\ held
                          /\ timestamp - ghost.t0
                                 >= StateParams.min_drowsy_warning_duration
                  IN /\ machine' = r.machine
                     /\ ret' = [state |-> r.state, event |-> r.event]
                     /\ ghost' =
                            [ghost EXCEPT
                                !.clock = Some(timestamp),
                                !.enters = IF entered THEN @ + 1 ELSE @,
                                !.enter_ts =
                                    IF entered /\ @ = None
                                    THEN Some(timestamp) ELSE @,
                                !.reach_ts =
                                    IF reached /\ @ = None
                                    THEN Some(timestamp) ELSE @]
           /\ call' = [op |-> "FocusStateMachine.update",
                       timestamp |-> timestamp,
                       scores |-> scores]
           /\ UNCHANGED <<controller, processor, session, app>>

NextHysteresis == HysteresisUpdate

SpecHysteresis == InitHysteresis /\ [][NextHysteresis]_vars

\* C3: with drowsy_warning_threshold = 60 and min_drowsy_warning_duration =
\* 3 s, a drowsiness score held at exactly 60 for 2.9 s and then dropped to 0
\* never moves the machine to DROWSY_WARNING; held for 3.1 s, the machine
\* enters DROWSY_WARNING exactly once, at the first update at which the
\* accumulated dwell has reached 3 s.
C3_Hysteresis ==
    /\ StateParams.drowsy_warning_threshold = 60
    /\ StateParams.min_drowsy_warning_duration = 30
    /\ ghost.hold = 29 =>
           /\ ghost.enters = 0
           /\ machine.state \notin DrowsyStates
    /\ ghost.hold = 31 =>
           /\ ghost.enters = (IF ghost.reach_ts = None THEN 0 ELSE 1)
           /\ ghost.enter_ts = ghost.reach_ts
           /\ (ghost.clock # None /\ Get(ghost.clock) >= ghost.t0 + ghost.hold)
                  => ghost.enters = 1

\* C3 witness: the 3.1 s hold is over, the score has dropped to 0 for long
\* enough that the machine has recovered to FOCUSED, and it entered
\* DROWSY_WARNING once on the way.
C3_Witness ==
    /\ ghost.hold = 31
    /\ ghost.enters = 1
    /\ call.op = "FocusStateMachine.update"
    /\ call.timestamp > ghost.t0 + ghost.hold
    /\ machine.state = "FOCUSED"
    /\ ret.event # None

\* C3 witness, the short hold: the 2.9 s hold is over and the score is 0.
C3_WitnessShort ==
    /\ ghost.hold = 29
    /\ call.op = "FocusStateMachine.update"
    /\ call.timestamp >= ghost.t0 + ghost.hold + 30
    /\ machine.time_above_drowsy_warning = 0

----------------------------------------------------------------------------
(* The alarm gate driven by arbitrary events *)

MaxAlarmTime == 240
MaxAlarmCalls == 4

\* Timestamp increments of successive events, one of them backwards.
AlarmSteps == {-20, 0, 20, 90, 100}

\* A state the machine can have been in just before it entered to_state.
SomeStateBefore(to_state) ==
    CASE to_state = "FOCUSED" -> "DROWSY_WARNING"
      [] to_state = "DROWSY_ALARM" -> "DROWSY_WARNING"
      [] to_state = "DISTRACTED_ALARM" -> "DISTRACTED_WARNING"
      [] OTHER -> "FOCUSED"

InitAlarm ==
    /\ machine = FocusStateMachine_init(StateParams)
    /\ controller = AlarmController_init(AlarmConfig)
    /\ processor = SignalProcessor_init(SignalConfig(200))
    /\ session = FocusSession_init(SessionConfig(TRUE, TRUE))
    /\ app = MainWindow_init
    /\ call = [op |-> "init"]
    /\ ret = None
    /\ ghost = [clock |-> 0,
                monotone |-> TRUE, \* no event so far was older than the one
                                   \* before it
                calls |-> 0,
                fired |-> << >>,   \* the calls that returned a kind, in order
                suppressed |-> << >>] \* the alarm-entering events that
                                      \* returned nothing, in order

\* One call controller.process_event(event).
ProcessEvent ==
    \E d \in AlarmSteps, to_state \in FocusState :
        LET timestamp == ghost.clock + d
            event == FocusEvent(timestamp, SomeStateBefore(to_state), to_state,
                                SignalScores(0, 0))
        IN /\ timestamp \in 0..MaxAlarmTime
           /\ ghost.calls < MaxAlarmCalls
           /\ \E r \in {process_event(controller, event)} :
                  /\ controller' = r.controller
                  /\ ret' = r.result
                  /\ ghost' =
                         [clock |-> timestamp,
                          monotone |-> ghost.monotone /\ d >= 0,
                          calls |-> ghost.calls + 1,
                          fired |->
                              IF r.result = None
                              THEN ghost.fired
                              ELSE Append(ghost.fired,
                                          [kind |-> Get(r.result),
                                           timestamp |-> timestamp]),
                          suppressed |->
                              IF r.result = None
                                 /\ to_state \in {"DROWSY_ALARM",
                                                  "DISTRACTED_ALARM"}
                              THEN Append(ghost.suppressed,
                                          [kind |-> IF to_state = "DROWSY_ALARM"
                                                    THEN "DROWSY"
                                                    ELSE "DISTRACTED",
                                           timestamp |-> timestamp])
                              ELSE ghost.suppressed]
           /\ call' = [op |-> "AlarmController.process_event", event |-> event]
           /\ UNCHANGED <<machine, processor, session, app>>

NextAlarm == ProcessEvent

SpecAlarm == InitAlarm /\ [][NextAlarm]_vars

\* The alarm kind an event type stands for, by the specification's table.
KindOfEventType(event_type) ==
    CASE event_type = "ENTER_DROWSY_ALARM" -> Some("DROWSY")
      [] event_type = "ENTER_DISTRACTED_ALARM" -> Some("DISTRACTED")
      [] OTHER -> None

\* The timestamps of the fired alarms of one kind, in call order.
FiredTimes(kind) ==
    LET F[i \in 0..Len(ghost.fired)] ==
            IF i = 0 THEN << >>
            ELSE IF ghost.fired[i].kind = kind
                 THEN Append(F[i - 1], ghost.fired[i].timestamp)
                 ELSE F[i - 1]
    IN F[Len(ghost.fired)]

\* C4: while event timestamps are non-decreasing, any two calls that
\* returned the same AlarmKind have timestamps at least cooldown_seconds
\* apart.
C4_SameKindAlarmsApart ==
    ghost.monotone =>
        \A i, j \in 1..Len(ghost.fired) :
            (i < j /\ ghost.fired[i].kind = ghost.fired[j].kind) =>
                ghost.fired[j].timestamp - ghost.fired[i].timestamp
                    >= controller.config.cooldown_seconds

\* C4 witness: with non-decreasing timestamps, an alarm fired, a second
\* alarm-entering event of the same kind less than the cooldown later
\* returned nothing, and a later one fired again.
C4_Witness ==
    /\ ghost.monotone
    /\ \E i, j \in 1..Len(ghost.fired), k \in 1..Len(ghost.suppressed) :
           /\ i < j
           /\ ghost.fired[i].kind = ghost.fired[j].kind
           /\ ghost.suppressed[k].kind = ghost.fired[i].kind
           /\ ghost.suppressed[k].timestamp > ghost.fired[i].timestamp
           /\ ghost.suppressed[k].timestamp < ghost.fired[j].timestamp

\* C5: a suppressed alarm-entering event leaves last_alarm_time unchanged,
\* and an alarm-entering event at least cooldown_seconds after the last
\* fired alarm of its kind (or with no fired alarm of its kind) fires.
C5_SuppressedKeepsClock ==
    [][call'.op = "AlarmController.process_event" =>
          LET kind == KindOfEventType(call'.event.event_type)
          IN kind # None =>
                 LET times == FiredTimes(Get(kind)) IN
                 /\ ret' = None =>
                        controller'.last_alarm_time = controller.last_alarm_time
                 /\ (\/ times = << >>
                     \/ call'.event.timestamp - times[Len(times)]
                            >= controller.config.cooldown_seconds)
                        => ret' = kind
      ]_vars

\* C5 witness: an alarm fired although an event of its kind had been
\* suppressed after the previous fired alarm of that kind.
C5_Witness ==
    /\ call.op = "AlarmController.process_event"
    /\ ret # None
    /\ Len(ghost.fired) = 2
    /\ ghost.fired[1].kind = ghost.fired[2].kind
    /\ ghost.fired[2].timestamp - ghost.fired[1].timestamp
           = controller.config.cooldown_seconds
    /\ \E k \in 1..Len(ghost.suppressed) :
           /\ ghost.suppressed[k].kind = ghost.fired[1].kind
           /\ ghost.suppressed[k].timestamp > ghost.fired[1].timestamp
           /\ ghost.suppressed[k].timestamp < ghost.fired[2].timestamp

\* C6: processing an event that maps to one kind never changes the other
\* kind's last_alarm_time, and an alarm-entering event is suppressed only
\* when an alarm of its own kind fired less than cooldown_seconds before it.
C6_KindsIndependent ==
    [][call'.op = "AlarmController.process_event" =>
          LET kind == KindOfEventType(call'.event.event_type)
          IN kind # None =>
                 /\ \A other \in AlarmKind \ {Get(kind)} :
                        controller'.last_alarm_time[other]
                            = controller.last_alarm_time[other]
                 /\ ret' = None =>
                        LET times == FiredTimes(Get(kind)) IN
                        /\ times # << >>
                        /\ call'.event.timestamp - times[Len(times)]
                               < controller.config.cooldown_seconds
      ]_vars

\* C6 witness: both kinds fired within one cooldown of each other.
C6_Witness ==
    /\ Len(ghost.fired) >= 2
    /\ \E i, j \in 1..Len(ghost.fired) :
           /\ i < j
           /\ ghost.fired[i].kind # ghost.fired[j].kind
           /\ ghost.fired[j].timestamp - ghost.fired[i].timestamp
                  < controller.config.cooldown_seconds
           /\ ghost.fired[j].timestamp >= ghost.fired[i].timestamp

\* C7: process_event returns DROWSY only for ENTER_DROWSY_ALARM and
\* DISTRACTED only for ENTER_DISTRACTED_ALARM; for the three other event
\* types it returns none and leaves both cooldown clocks unchanged.
C7_OnlyAlarmEventsFire ==
    [][call'.op = "AlarmController.process_event" =>
          /\ ret' # None =>
                 \/ /\ call'.event.event_type = "ENTER_DROWSY_ALARM"
                    /\ ret' = Some("DROWSY")
                 \/ /\ call'.event.event_type = "ENTER_DISTRACTED_ALARM"
                    /\ ret' = Some("DISTRACTED")
          /\ call'.event.event_type \in
                 {"ENTER_FOCUSED", "ENTER_DROWSY_WARNING",
                  "ENTER_DISTRACTED_WARNING"} =>
                 /\ ret' = None
                 /\ controller'.last_alarm_time = controller.last_alarm_time
      ]_vars

\* C7 witness: a warning-entering event was processed after both kinds of
\* alarm had fired, and returned nothing.
C7_Witness ==
    /\ call.op = "AlarmController.process_event"
    /\ call.event.event_type = "ENTER_DROWSY_WARNING"
    /\ ret = None
    /\ \A k \in AlarmKind : controller.last_alarm_time[k] # NegInf

----------------------------------------------------------------------------
(* The signal processor driven by arbitrary measurements *)

MaxSignalTime == 40
MaxSignalCalls == 4

\* window_duration_seconds of the processor in this specification: 1 s.
SignalWindows == {10}

\* Timestamp increments of successive updates, one of them backwards.
SignalSteps == {-4, 0, 1, 4, 10}

\* FaceMetrics values: no face; a face flag without a face's ratios ignored;
\* one ratio missing; an eye below the threshold; both at the threshold.
Measurements ==
    {[face_present |-> FALSE, left_eye_ear |-> None, right_eye_ear |-> None],
     [face_present |-> FALSE, left_eye_ear |-> Some(21),
                              right_eye_ear |-> Some(21)],
     [face_present |-> TRUE, left_eye_ear |-> None, right_eye_ear |-> Some(21)],
     [face_present |-> TRUE, left_eye_ear |-> Some(21), right_eye_ear |-> None],
     [face_present |-> TRUE, left_eye_ear |-> Some(21),
                             right_eye_ear |-> Some(22)],
     [face_present |-> TRUE, left_eye_ear |-> Some(22),
                             right_eye_ear |-> Some(21)],
     [face_present |-> TRUE, left_eye_ear |-> Some(22),
                             right_eye_ear |-> Some(22)]}

InitSignal ==
    /\ machine = FocusStateMachine_init(StateParams)
    /\ controller = AlarmController_init(AlarmConfig)
    /\ \E w \in SignalWindows :
           processor = SignalProcessor_init(SignalConfig(w))
    /\ session = FocusSession_init(SessionConfig(TRUE, TRUE))
    /\ app = MainWindow_init
    /\ call = [op |-> "init"]
    /\ ret = None
    /\ ghost = [clock |-> 0,
                monotone |-> TRUE, \* no update so far was older than the one
                                   \* before it
                calls |-> 0,
                episode |-> None]  \* when the eye closure in progress began

\* The start of the eye closure in progress after a tick at timestamp: a
\* closure begins at the first tick whose minimum ratio is below the
\* threshold and lasts until a tick whose minimum ratio is at or above it.
EpisodeAfter(episode, timestamp, min_ear, threshold) ==
    IF min_ear = None THEN episode
    ELSE IF Get(min_ear) < threshold
    THEN (IF episode = None THEN Some(timestamp) ELSE episode)
    ELSE None

\* One call processor.update(timestamp, face_present, left, right).
SignalUpdate ==
    \E d \in SignalSteps, metrics \in Measurements :
        LET timestamp == ghost.clock + d
        IN /\ timestamp \in 0..MaxSignalTime
           /\ ghost.calls < MaxSignalCalls
           /\ \E r \in {SignalProcessor_update(processor, timestamp,
                                               metrics.face_present,
                                               metrics.left_eye_ear,
                                               metrics.right_eye_ear)} :
                  /\ processor' = r.processor
                  /\ ret' = r.scores
           /\ call' = [op |-> "SignalProcessor.update",
                       timestamp |-> timestamp,
                       metrics |-> metrics]
           /\ ghost' = [clock |-> timestamp,
                        monotone |-> ghost.monotone /\ d >= 0,
                        calls |-> ghost.calls + 1,
                        episode |->
                            EpisodeAfter(
                                ghost.episode, timestamp,
                                minimum_eye_aspect_ratio(
                                    metrics.face_present,
                                    metrics.left_eye_ear,
                                    metrics.right_eye_ear),
                                processor.config.eye_aspect_ratio_threshold)]
           /\ UNCHANGED <<machine, controller, session, app>>

NextSignal == SignalUpdate

SpecSignal == InitSignal /\ [][NextSignal]_vars

\* The queue q is in non-decreasing order and holds nothing older than
\* oldest.
OrderedAndRecent(q, oldest) ==
    /\ \A i \in 1..(Len(q) - 1) : q[i] <= q[i + 1]
    /\ \A i \in 1..Len(q) : q[i] >= oldest

\* C8: after every update of a run with non-decreasing timestamps, each of
\* the three queues is in non-decreasing timestamp order and holds no entry
\* older than window_duration_seconds before the latest timestamp.
C8_QueuesOrderedAndRecent ==
    (call.op = "SignalProcessor.update" /\ ghost.monotone) =>
        LET oldest == ghost.clock - processor.config.window_duration_seconds
        IN /\ OrderedAndRecent(processor.sample_timestamps, oldest)
           /\ OrderedAndRecent(processor.blink_event_timestamps, oldest)
           /\ OrderedAndRecent(processor.long_blink_event_timestamps, oldest)

\* C8 witness: with non-decreasing timestamps, an update has evicted
\* samples and a blink is still retained.
C8_Witness ==
    /\ call.op = "SignalProcessor.update"
    /\ ghost.monotone
    /\ processor.sample_count < ghost.calls
    /\ processor.blink_event_timestamps # << >>

----------------------------------------------------------------------------
(* The window scenario: samples spaced exactly 1 s apart *)

MaxWindowCalls == 6

\* window_duration_seconds of the scenario's processor: 1 s, 2 s, 2.5 s, 3 s.
WindowDurations == {10, 20, 25, 30}

WindowStarts == {0, 7}

\* The spacing of the samples: 1 s.
SampleSpacings == {10}

InitWindow ==
    /\ machine = FocusStateMachine_init(StateParams)
    /\ controller = AlarmController_init(AlarmConfig)
    /\ \E w \in WindowDurations :
           processor = SignalProcessor_init(SignalConfig(w))
    /\ session = FocusSession_init(SessionConfig(TRUE, TRUE))
    /\ app = MainWindow_init
    /\ call = [op |-> "init"]
    /\ ret = None
    /\ \E t0 \in WindowStarts, spacing \in SampleSpacings :
           ghost = [clock |-> t0 - spacing, spacing |-> spacing, calls |-> 0]

\* One call processor.update, 1 s after the previous one.
WindowUpdate ==
    \E metrics \in Measurements :
        LET timestamp == ghost.clock + ghost.spacing
        IN /\ ghost.calls < MaxWindowCalls
           /\ \E r \in {SignalProcessor_update(processor, timestamp,
                                               metrics.face_present,
                                               metrics.left_eye_ear,
                                               metrics.right_eye_ear)} :
                  /\ processor' = r.processor
                  /\ ret' = r.scores
           /\ call' = [op |-> "SignalProcessor.update",
                       timestamp |-> timestamp,
                       metrics |-> metrics]
           /\ ghost' = [ghost EXCEPT !.clock = timestamp, !.calls = @ + 1]
           /\ UNCHANGED <<machine, controller, session, app>>

NextWindow == WindowUpdate

SpecWindow == InitWindow /\ [][NextWindow]_vars

\* C9: with samples 1 s apart and a window of W seconds, at most W + 1
\* window samples are retained after the Nth update, for every N > W.
\* (Counts are compared as times: n <= W + 1 is
\* n * spacing <= window + spacing, the spacing being 1 s.)
C9_WindowRetainsAtMostWPlus1 ==
    ghost.calls * ghost.spacing > processor.config.window_duration_seconds =>
        /\ Len(processor.sample_timestamps) * ghost.spacing
               <= processor.config.window_duration_seconds + ghost.spacing
        /\ processor.sample_count * ghost.spacing
               <= processor.config.window_duration_seconds + ghost.spacing

\* C9 witness: more than W + 1 updates were made and exactly W + 1 samples
\* are retained.
C9_Witness ==
    /\ ghost.calls * ghost.spacing
           > processor.config.window_duration_seconds + ghost.spacing
    /\ Len(processor.sample_timestamps) * ghost.spacing
           = processor.config.window_duration_seconds + ghost.spacing

\* C10 (as claimed): an update whose eye ratio is unknown leaves the blink in
\* progress as it was (active flag and start timestamp) and records no blink
\* or long-blink event: the two event queues are the old ones after
\* eviction.
C10_UnknownRatioKeepsBlink ==
    [][(/\ call'.op = "SignalProcessor.update"
        /\ minimum_eye_aspect_ratio(call'.metrics.face_present,
                                    call'.metrics.left_eye_ear,
                                    call'.metrics.right_eye_ear) = None)
       => LET pruned == prune_old(processor, call'.timestamp) IN
          /\ processor'.current_blink_active = processor.current_blink_active
          /\ processor'.current_blink_start_timestamp
                 = processor.current_blink_start_timestamp
          /\ processor'.blink_event_timestamps = pruned.blink_event_timestamps
          /\ processor'.long_blink_event_timestamps
                 = pruned.long_blink_event_timestamps
      ]_vars

\* C11 (as claimed): in a run with non-decreasing timestamps, an update
\* records a blink event, at its own timestamp, exactly when it is the first
\* tick with a ratio at or above the threshold after an eye closure of
\* duration d >= minimum_blink_duration_seconds, and a long-blink event
\* exactly when moreover d >= minimum_long_blink_duration_seconds; no other
\* update records an event.  The two event queues after the update are the
\* old ones, with that event appended, after eviction.
C11_EpisodeRecordsOneBlink ==
    [][(/\ call'.op = "SignalProcessor.update"
        /\ ghost'.monotone)
       => LET timestamp == call'.timestamp
              min_ear ==
                  minimum_eye_aspect_ratio(call'.metrics.face_present,
                                           call'.metrics.left_eye_ear,
                                           call'.metrics.right_eye_ear)
              ends ==
                  /\ ghost.episode # None
                  /\ min_ear # None
                  /\ Get(min_ear)
                         >= processor.config.eye_aspect_ratio_threshold
              d == timestamp - Get(ghost.episode)
              is_blink ==
                  /\ ends
                  /\ d >= processor.config.minimum_blink_duration_seconds
              is_long ==
                  /\ ends
                  /\ d >= processor.config
                              .minimum_long_blink_duration_seconds
              cutoff ==
                  timestamp - processor.config.window_duration_seconds
          IN /\ processor'.blink_event_timestamps
                    = prune_queue(
                          IF is_blink
                          THEN Append(processor.blink_event_timestamps,
                                      timestamp)
                          ELSE processor.blink_event_timestamps,
                          cutoff)
             /\ processor'.long_blink_event_timestamps
                    = prune_queue(
                          IF is_long
                          THEN Append(processor.long_blink_event_timestamps,
                                      timestamp)
                          ELSE processor.long_blink_event_timestamps,
                          cutoff)
      ]_vars

----------------------------------------------------------------------------
(* A session driven by arbitrary start, update, end and summary calls *)

MaxSessionTime == 60
MaxSessionCalls == 5

\* The session window (2 s), short enough for samples to be evicted.
SessionWindows == {20}

\* The timestamp of a call, relative to the one before it: earlier, the
\* same, 2 s later.
SessionSteps == {-10, 0, 20}

\* FaceMetrics of a tick: no face, eyes closed, eyes open.
SessionMeasurements ==
    {[face_present |-> FALSE, left_eye_ear |-> None, right_eye_ear |-> None],
     [face_present |-> TRUE, left_eye_ear |-> Some(21),
      right_eye_ear |-> Some(21)],
     [face_present |-> TRUE, left_eye_ear |-> Some(22),
      right_eye_ear |-> Some(22)]}

\* Every choice of the two detection switches.
SessionConfigs ==
    {SessionConfig(detect_drowsiness, detect_distraction) :
        detect_drowsiness \in BOOLEAN, detect_distraction \in BOOLEAN}

\* FocusSession(config, state_params, signal_config), not started.
InitSession ==
    /\ machine = FocusStateMachine_init(BalancedParams)
    /\ controller = AlarmController_init(AlarmConfig)
    /\ \E w \in SessionWindows :
           processor = SignalProcessor_init(SignalConfig(w))
    /\ \E config \in SessionConfigs : session = FocusSession_init(config)
    /\ app = MainWindow_init
    /\ call = [op |-> "new"]
    /\ ret = None
    /\ ghost = [clock |-> 0,
                calls |-> 0,
                step |-> 0,         \* the latest call's timestamp minus the
                                    \* timestamp of the call before it
                started |-> FALSE,  \* a start has completed
                ended |-> FALSE,    \* an end has completed
                closed |-> FALSE,   \* an end has completed since the latest
                                    \* start
                clean |-> FALSE,    \* since the latest start: timestamps
                                    \* never went back, no call after end
                reported |-> None,  \* the previous update of this run: the
                                    \* state it returned and its timestamp
                returned |-> << >>, \* the events returned by the updates of
                                    \* this run, in call order
                ordered |-> FALSE,  \* since the latest start no timestamp
                                    \* went back
                first |-> None,     \* the timestamp of the first update
                                    \* since the latest start
                fresh |-> TRUE]     \* the state machine had had no update
                                    \* when the latest start was made

\* One call session.start(timestamp).
SessionStart ==
    \E d \in SessionSteps :
        LET timestamp == ghost.clock + d
        IN /\ timestamp \in 0..MaxSessionTime
           /\ ghost.calls < MaxSessionCalls
           /\ \E r \in {FocusSession_start(session, machine, processor,
                                           timestamp)} :
                  /\ session' = r.session
                  /\ machine' = r.machine
                  /\ processor' = r.processor
           /\ call' = [op |-> "FocusSession.start", timestamp |-> timestamp]
           /\ ret' = [raised |-> FALSE]
           /\ ghost' = [ghost EXCEPT !.clock = timestamp,
                                     !.step = d,
                                     !.calls = @ + 1,
                                     !.started = TRUE,
                                     !.closed = FALSE,
                                     !.clean = TRUE,
                                     !.reported = None,
                                     !.returned = << >>,
                                     !.ordered = TRUE,
                                     !.first = None,
                                     !.fresh = machine.last_timestamp = None]
           /\ UNCHANGED <<controller, app>>

\* One call session.update(timestamp, metrics).
SessionUpdate ==
    \E d \in SessionSteps, metrics \in SessionMeasurements :
        LET timestamp == ghost.clock + d
        IN /\ timestamp \in 0..MaxSessionTime
           /\ ghost.calls < MaxSessionCalls
           /\ \E r \in {FocusSession_update(session, machine, processor,
                                            timestamp, metrics)} :
                  /\ session' = r.session
                  /\ machine' = r.machine
                  /\ processor' = r.processor
                  /\ ret' = IF r.raised
                            THEN [raised |-> TRUE]
                            ELSE [raised |-> FALSE,
                                  state |-> r.state,
                                  scores |-> r.scores,
                                  event |-> r.event]
                  /\ ghost' = [ghost EXCEPT
                                  !.clock = timestamp,
                                  !.step = d,
                                  !.calls = @ + 1,
                                  !.clean = @ /\ d >= 0 /\ ~ghost.closed,
                                  !.reported =
                                      IF r.raised THEN @
                                      ELSE Some([state |-> r.state,
                                                 timestamp |-> timestamp]),
                                  !.returned =
                                      IF r.raised \/ r.event = None THEN @
                                      ELSE Append(@, Get(r.event)),
                                  !.ordered = @ /\ d >= 0,
                                  !.first =
                                      IF r.raised \/ @ # None THEN @
                                      ELSE Some(timestamp)]
           /\ call' = [op |-> "FocusSession.update",
                       timestamp |-> timestamp,
                       metrics |-> metrics]
           /\ UNCHANGED <<controller, app>>

\* One call session.end(timestamp).
SessionEnd ==
    \E d \in SessionSteps :
        LET timestamp == ghost.clock + d
        IN /\ timestamp \in 0..MaxSessionTime
           /\ ghost.calls < MaxSessionCalls
           /\ \E r \in {FocusSession_end(session, machine, processor,
                                         timestamp)} :
                  /\ session' = r.session
                  /\ machine' = r.machine
                  /\ processor' = r.processor
                  /\ ret' = [raised |-> r.raised]
                  /\ ghost' = [ghost EXCEPT
                                  !.clock = timestamp,
                                  !.step = d,
                                  !.calls = @ + 1,
                                  !.ended = @ \/ ~r.raised,
                                  !.closed = @ \/ ~r.raised,
                                  !.clean = @ /\ d >= 0 /\ ~ghost.closed,
                                  !.ordered = @ /\ d >= 0]
           /\ call' = [op |-> "FocusSession.end", timestamp |-> timestamp]
           /\ UNCHANGED <<controller, app>>

\* One call session.summary().
SessionSummary ==
    /\ ghost.calls < MaxSessionCalls
    /\ ret' = FocusSession_summary(session)
    /\ call' = [op |-> "FocusSession.summary"]
    /\ ghost' = [ghost EXCEPT !.calls = @ + 1, !.step = 0]
    /\ UNCHANGED <<machine, controller, processor, session, app>>

NextSession ==
    \/ SessionStart
    \/ SessionUpdate
    \/ SessionEnd
    \/ SessionSummary

SpecSession == InitSession /\ [][NextSession]_vars

\* C12: an update with a previous update in the same run adds the time
\* elapsed since that previous update (never less than 0) to the bucket of
\* the state the previous update returned, and changes no other bucket: the
\* bucket of a state entered by this update does not grow on this update.
C12_ElapsedCreditedToPreviousState ==
    [][(/\ call'.op = "FocusSession.update"
        /\ ~ret'.raised
        /\ ghost.reported # None)
       => LET previous == Get(ghost.reported)
              elapsed == Max(0, call'.timestamp - previous.timestamp)
          IN session'.durations_by_state
                 = [session.durations_by_state EXCEPT
                       ![previous.state] = @ + elapsed]
      ]_vars

\* An update 2 s after the previous one has entered a state: the state left
\* was credited, the state entered has nothing yet.
C12_Witness ==
    /\ call.op = "FocusSession.update"
    /\ ~ret.raised
    /\ ret.event # None
    /\ ret.state = Get(ret.event).to_state
    /\ session.durations_by_state[Get(ret.event).from_state] > 0
    /\ session.durations_by_state[Get(ret.event).to_state] = 0

\* C13 (as claimed): after a run start, updates, end with non-decreasing
\* timestamps, summary() reports focused_seconds + drowsy_seconds +
\* distracted_seconds within 1 s (the precision the summary is stored with)
\* of duration_seconds.
C13_BucketsSumToDuration ==
    (/\ call.op = "FocusSession.summary"
     /\ ~ret.raised
     /\ ghost.closed
     /\ ghost.clean)
    => LET accounted == ret.stats.focused_seconds
                            + ret.stats.drowsy_seconds
                            + ret.stats.distracted_seconds
       IN accounted - ret.stats.duration_seconds \in -10..10

\* C14: update or end on a session that was never started raises and
\* leaves the session, the state machine and the signal processor as they
\* were.
C14_NotStartedRaises ==
    [][(/\ ~ghost.started
        /\ call'.op \in {"FocusSession.update", "FocusSession.end"})
       => /\ ret'.raised
          /\ session' = session
          /\ machine' = machine
          /\ processor' = processor
      ]_vars

\* An update was refused on a session never started, after another call had
\* been refused too.
C14_Witness ==
    /\ call.op = "FocusSession.update"
    /\ ret.raised
    /\ ~ghost.started
    /\ ghost.calls >= 2
    /\ session = FocusSession_init(session.config)

\* C15: summary() raises exactly when start and end have not both
\* completed.
C15_SummaryNeedsStartAndEnd ==
    call.op = "FocusSession.summary"
        => (ret.raised <=> ~(ghost.started /\ ghost.ended))

\* summary() was refused on a session started and updated but not ended.
C15_Witness ==
    /\ call.op = "FocusSession.summary"
    /\ ret.raised
    /\ ghost.started
    /\ ~ghost.ended
    /\ session.last_timestamp # None

\* C16 (as claimed): an update after the session has been ended raises.
C16_UpdateAfterEndRejected ==
    [][(ghost.closed /\ call'.op = "FocusSession.update") => ret'.raised]_vars

\* C17 (as claimed): an end directly after a completed end, with the same
\* timestamp, leaves the buckets and the summary as they were.
C17_SecondEndChangesNothing ==
    [][(/\ call.op = "FocusSession.end"
        /\ ~ret.raised
        /\ call'.op = "FocusSession.end"
        /\ call'.timestamp = call.timestamp)
       => /\ session'.durations_by_state = session.durations_by_state
          /\ FocusSession_summary(session') = FocusSession_summary(session)
      ]_vars

\* No dwell timer of the machine m is negative.
TimersNonNegative(m) ==
    /\ m.time_in_state >= 0
    /\ m.time_above_drowsy_warning >= 0
    /\ m.time_above_drowsy_alarm >= 0
    /\ m.time_above_distracted_warning >= 0
    /\ m.time_above_distracted_alarm >= 0
    /\ m.time_below_drowsy_recovery >= 0
    /\ m.time_below_distracted_recovery >= 0

\* After any calls, whatever their timestamps: no update or end of a
\* started session has raised, the blink in progress has its start
\* timestamp (the assertion of _update_blinks), no dwell timer and no bucket
\* is negative.
NothingFailsNothingNegative ==
    /\ (call.op \in {"FocusSession.update", "FocusSession.end"}
            /\ ghost.started) => ~ret.raised
    /\ processor.current_blink_active
           => processor.current_blink_start_timestamp # None
    /\ TimersNonNegative(machine)
    /\ \A state \in FocusState : session.durations_by_state[state] >= 0

\* C18: for any timestamp sequence, no call on a started session fails, no
\* dwell timer and no bucket is ever negative, and no update, end or
\* summary makes a bucket smaller.
C18_DeltasClamped ==
    /\ []NothingFailsNothingNegative
    /\ [][call'.op \in {"FocusSession.update", "FocusSession.end",
                        "FocusSession.summary"}
          => \A state \in FocusState :
                 session'.durations_by_state[state]
                     >= session.durations_by_state[state]
         ]_vars

\* An update 1 s older than the call before it was processed by a session
\* with time in a bucket and by a machine with time in its state.
C18_Witness ==
    /\ call.op = "FocusSession.update"
    /\ ~ret.raised
    /\ ghost.step < 0
    /\ session.durations_by_state[ret.state] > 0
    /\ machine.time_in_state > 0
    /\ Get(machine.last_timestamp) = ghost.clock

\* With the detection of one branch switched off: the score of that branch
\* returned by (and passed to the machine in) the latest update is 0, the
\* state is not in that branch and no logged or returned event enters it.
BranchSilent(detect, score, states) ==
    ~detect =>
        /\ machine.state \notin states
        /\ \A i \in 1..Len(session.events) :
               session.events[i].to_state \notin states
        /\ (call.op = "FocusSession.update" /\ ~ret.raised) =>
               /\ score = Score(0)
               /\ ret.state \notin states
               /\ ret.event # None => Get(ret.event).to_state \notin states

\* C19: in a session of a fresh FocusSession with detect_drowsiness false,
\* every update passes a drowsiness score of 0 to the machine, no state
\* reported is DROWSY_WARNING or DROWSY_ALARM and no event enters one of
\* them, whatever the measurements; the same for detect_distraction and the
\* DISTRACTED states.
C19_MaskedBranchNeverEntered ==
    /\ BranchSilent(session.config.detect_drowsiness,
                    IF call.op = "FocusSession.update" /\ ~ret.raised
                    THEN ret.scores.drowsiness_score ELSE Score(0),
                    DrowsyStates)
    /\ BranchSilent(session.config.detect_distraction,
                    IF call.op = "FocusSession.update" /\ ~ret.raised
                    THEN ret.scores.distraction_score ELSE Score(0),
                    DistractedStates)

\* With detect_drowsiness false, an update 2 s after the previous one found
\* a raw drowsiness score at the alarm threshold or above, and the session
\* stayed FOCUSED with a drowsiness score of 0.
C19_Witness ==
    /\ ~session.config.detect_drowsiness
    /\ call.op = "FocusSession.update"
    /\ ~ret.raised
    /\ ghost.step > 0
    /\ ScoreGE(compute_scores(processor).drowsiness_score,
               machine.params.drowsy_alarm_threshold)
    /\ ret.scores.drowsiness_score = Score(0)
    /\ ret.scores.long_blink_count > 0
    /\ ret.state = "FOCUSED"

\* After an update with the given scores, the machine m meets the
\* DrowsyWarning condition: score at or above the warning threshold, for at
\* least the minimum duration.
DrowsyWarningMet(m, scores) ==
    /\ ScoreGE(scores.drowsiness_score, m.params.drowsy_warning_threshold)
    /\ m.time_above_drowsy_warning >= m.params.min_drowsy_warning_duration

\* The same for the DistractedWarning condition.
DistractedWarningMet(m, scores) ==
    /\ ScoreGE(scores.distraction_score,
               m.params.distracted_warning_threshold)
    /\ m.time_above_distracted_warning
           >= m.params.min_distracted_warning_duration

\* C20: an update of a FOCUSED machine on which the DrowsyWarning condition
\* and the DistractedWarning condition are both met moves the machine to
\* DROWSY_WARNING and reports that state, with an ENTER_DROWSY_WARNING event.
C20_DrowsinessFirst ==
    [][(/\ call'.op = "FocusStateMachine.update"
        /\ machine.state = "FOCUSED"
        /\ DrowsyWarningMet(machine', call'.scores)
        /\ DistractedWarningMet(machine', call'.scores))
       => /\ machine'.state = "DROWSY_WARNING"
          /\ ret'.state = "DROWSY_WARNING"
          /\ ret'.event # None
          /\ Get(ret'.event).event_type = "ENTER_DROWSY_WARNING"
      ]_vars

\* The machine has just left FOCUSED for DROWSY_WARNING on an update that
\* met the DistractedWarning condition as well.
C20_Witness ==
    /\ call.op = "FocusStateMachine.update"
    /\ ret.event # None
    /\ Get(ret.event).from_state = "FOCUSED"
    /\ Get(ret.event).to_state = "DROWSY_WARNING"
    /\ DrowsyWarningMet(machine, call.scores)
    /\ DistractedWarningMet(machine, call.scores)

----------------------------------------------------------------------------
(* The two branches of the state machine, side by side *)

MaxBranchTime == 40

\* StateParams(...) with short durations, a positive grace and every
\* drowsiness parameter different from its distraction counterpart.
QuickParams ==
    [drowsy_warning_threshold |-> 60,
     drowsy_alarm_threshold |-> 80,
     distracted_warning_threshold |-> 59,
     distracted_alarm_threshold |-> 60,
     min_drowsy_warning_duration |-> 10,
     min_drowsy_alarm_duration |-> 20,
     min_distracted_warning_duration |-> 20,
     min_distracted_alarm_duration |-> 10,
     drowsy_recovery_threshold |-> 59,
     distracted_recovery_threshold |-> 40,
     recovery_grace_duration |-> 10]

BranchSteps == {0, 10}

\* The parameters with every drowsiness field exchanged with its
\* distraction counterpart.
MirrorParams(p) ==
    [drowsy_warning_threshold |-> p.distracted_warning_threshold,
     drowsy_alarm_threshold |-> p.distracted_alarm_threshold,
     distracted_warning_threshold |-> p.drowsy_warning_threshold,
     distracted_alarm_threshold |-> p.drowsy_alarm_threshold,
     min_drowsy_warning_duration |-> p.min_distracted_warning_duration,
     min_drowsy_alarm_duration |-> p.min_distracted_alarm_duration,
     min_distracted_warning_duration |-> p.min_drowsy_warning_duration,
     min_distracted_alarm_duration |-> p.min_drowsy_alarm_duration,
     drowsy_recovery_threshold |-> p.distracted_recovery_threshold,
     distracted_recovery_threshold |-> p.drowsy_recovery_threshold,
     recovery_grace_duration |-> p.recovery_grace_duration]

\* The state of the other branch at the same level.
MirrorState(state) ==
    CASE state = "FOCUSED" -> "FOCUSED"
      [] state = "DROWSY_WARNING" -> "DISTRACTED_WARNING"
      [] state = "DROWSY_ALARM" -> "DISTRACTED_ALARM"
      [] state = "DISTRACTED_WARNING" -> "DROWSY_WARNING"
      [] state = "DISTRACTED_ALARM" -> "DROWSY_ALARM"

\* The scores with drowsiness and distraction exchanged.
MirrorScores(scores) ==
    [scores EXCEPT !.drowsiness_score = scores.distraction_score,
                   !.distraction_score = scores.drowsiness_score]

\* The machine with parameters, state and timers exchanged.
MirrorMachine(m) ==
    [params |-> MirrorParams(m.params),
     state |-> MirrorState(m.state),
     last_timestamp |-> m.last_timestamp,
     time_in_state |-> m.time_in_state,
     time_above_drowsy_warning |-> m.time_above_distracted_warning,
     time_above_drowsy_alarm |-> m.time_above_distracted_alarm,
     time_above_distracted_warning |-> m.time_above_drowsy_warning,
     time_above_distracted_alarm |-> m.time_above_drowsy_alarm,
     time_below_drowsy_recovery |-> m.time_below_distracted_recovery,
     time_below_distracted_recovery |-> m.time_below_drowsy_recovery]

\* The returned (state, event) with states, event kind and scores
\* exchanged.
MirrorReturn(r) ==
    [state |-> MirrorState(r.state),
     event |->
         IF r.event = None THEN None
         ELSE LET event == Get(r.event)
              IN Some([timestamp |-> event.timestamp,
                       event_type |->
                           event_type_for_state(MirrorState(event.to_state)),
                       from_state |-> MirrorState(event.from_state),
                       to_state |-> MirrorState(event.to_state),
                       drowsiness_score |-> event.distraction_score,
                       distraction_score |-> event.drowsiness_score])]

\* After an update with the given scores, the machine m meets the
\* DrowsyWarning condition and the DistractedWarning condition at once.
BothWarningsMet(m, scores) ==
    /\ ScoreGE(scores.drowsiness_score, m.params.drowsy_warning_threshold)
    /\ m.time_above_drowsy_warning >= m.params.min_drowsy_warning_duration
    /\ ScoreGE(scores.distraction_score,
               m.params.distracted_warning_threshold)
    /\ m.time_above_distracted_warning
           >= m.params.min_distracted_warning_duration

\* Two machines: machine with QuickParams, and a twin with the mirrored
\* parameters.
InitBranch ==
    /\ machine = FocusStateMachine_init(QuickParams)
    /\ controller = AlarmController_init(AlarmConfig)
    /\ processor = SignalProcessor_init(SignalConfig(200))
    /\ session = FocusSession_init(SessionConfig(TRUE, TRUE))
    /\ app = MainWindow_init
    /\ call = [op |-> "init"]
    /\ ret = None
    /\ ghost = [clock |-> 0,
                twin |-> FocusStateMachine_init(MirrorParams(QuickParams)),
                twin_ret |-> None,  \* what the twin's update returned
                tie |-> FALSE]      \* an update of a FOCUSED machine has met
                                    \* both warning conditions

\* One call machine.update(timestamp, scores) and one call of the twin's
\* update with the same timestamp and the scores exchanged.
BranchUpdate ==
    \E d \in BranchSteps, ds \in ScoreValues, xs \in ScoreValues :
        LET timestamp == ghost.clock + d
            scores == SignalScores(ds, xs)
        IN /\ timestamp \in 0..MaxBranchTime
           /\ \E r \in {FocusStateMachine_update(machine, timestamp, scores)},
                 t \in {FocusStateMachine_update(ghost.twin, timestamp,
                                                 MirrorScores(scores))} :
                  /\ machine' = r.machine
                  /\ ret' = [state |-> r.state, event |-> r.event]
                  /\ ghost' = [clock |-> timestamp,
                               twin |-> t.machine,
                               twin_ret |-> Some([state |-> t.state,
                                                  event |-> t.event]),
                               tie |-> \/ ghost.tie
                                       \/ /\ machine.state = "FOCUSED"
                                          /\ BothWarningsMet(r.machine,
                                                             scores)]
           /\ call' = [op |-> "FocusStateMachine.update",
                       timestamp |-> timestamp,
                       scores |-> scores]
           /\ UNCHANGED <<controller, processor, session, app>>

NextBranch == BranchUpdate

SpecBranch == InitBranch /\ [][NextBranch]_vars

\* After an update with the given scores, the machine m meets the recovery
\* condition of the Drowsy branch: score at or below the recovery threshold,
\* for at least the grace duration of accumulated dwell.
DrowsyRecoveryMet(m, scores) ==
    /\ ScoreLE(scores.drowsiness_score, m.params.drowsy_recovery_threshold)
    /\ m.time_below_drowsy_recovery >= m.params.recovery_grace_duration

\* The same for the Distracted branch.
DistractedRecoveryMet(m, scores) ==
    /\ ScoreLE(scores.distraction_score,
               m.params.distracted_recovery_threshold)
    /\ m.time_below_distracted_recovery >= m.params.recovery_grace_duration

\* C21: an update of a machine in DROWSY_ALARM leaves it in DROWSY_ALARM or
\* moves it to FOCUSED, and to FOCUSED only if the drowsiness score is at or
\* below the recovery threshold and has been for at least
\* recovery_grace_duration; the same for DISTRACTED_ALARM with the
\* distraction score.  No update moves an Alarm state to its Warning state.
C21_AlarmLeavesOnlyToFocused ==
    [][call'.op = "FocusStateMachine.update"
       => /\ machine.state = "DROWSY_ALARM"
             => /\ machine'.state \in {"DROWSY_ALARM", "FOCUSED"}
                /\ machine'.state = "FOCUSED"
                       => DrowsyRecoveryMet(machine', call'.scores)
          /\ machine.state = "DISTRACTED_ALARM"
             => /\ machine'.state \in {"DISTRACTED_ALARM", "FOCUSED"}
                /\ machine'.state = "FOCUSED"
                       => DistractedRecoveryMet(machine', call'.scores)
      ]_vars

\* The machine has just recovered from DROWSY_ALARM to FOCUSED, after a
\* positive grace duration.
C21_Witness ==
    /\ call.op = "FocusStateMachine.update"
    /\ ret.event # None
    /\ Get(ret.event).from_state = "DROWSY_ALARM"
    /\ Get(ret.event).to_state = "FOCUSED"
    /\ machine.params.recovery_grace_duration > 0
    /\ machine.time_below_drowsy_recovery
           >= machine.params.recovery_grace_duration

\* After an update with the given scores, the machine m meets the
\* DrowsyAlarm condition: score at or above the alarm threshold, for at
\* least the minimum alarm duration of accumulated dwell.
DrowsyAlarmMet(m, scores) ==
    /\ ScoreGE(scores.drowsiness_score, m.params.drowsy_alarm_threshold)
    /\ m.time_above_drowsy_alarm >= m.params.min_drowsy_alarm_duration

\* C22: an update of a machine in DROWSY_WARNING moves it to DROWSY_ALARM
\* iff the DrowsyAlarm condition is met; otherwise to FOCUSED iff the
\* recovery condition is met; otherwise it stays in DROWSY_WARNING.
C22_FromDrowsyWarning ==
    [][(/\ call'.op = "FocusStateMachine.update"
        /\ machine.state = "DROWSY_WARNING")
       => machine'.state =
              IF DrowsyAlarmMet(machine', call'.scores)
              THEN "DROWSY_ALARM"
              ELSE IF DrowsyRecoveryMet(machine', call'.scores)
              THEN "FOCUSED"
              ELSE "DROWSY_WARNING"
      ]_vars

\* The machine has just recovered from DROWSY_WARNING to FOCUSED, having
\* seen before a score at the alarm threshold that had not lasted the
\* minimum alarm duration.
C22_Witness ==
    /\ call.op = "FocusStateMachine.update"
    /\ ret.event # None
    /\ Get(ret.event).from_state = "DROWSY_WARNING"
    /\ Get(ret.event).to_state = "FOCUSED"
    /\ machine.params.recovery_grace_duration > 0
    /\ machine.time_above_drowsy_alarm = 0
    /\ machine.time_below_drowsy_recovery
           >= machine.params.recovery_grace_duration

\* C23: as long as no update of a FOCUSED machine has met both warning
\* conditions at once, the machine and a machine with the drowsiness and
\* distraction parameters exchanged, fed the same timestamps and the scores
\* exchanged, are mirror images: same timers with the branches exchanged,
\* states and returned events with Drowsy and Distracted exchanged.
C23_BranchesMirror ==
    (call.op = "FocusStateMachine.update" /\ ~ghost.tie)
        => /\ ghost.twin = MirrorMachine(machine)
           /\ ghost.twin_ret = Some(MirrorReturn(ret))

\* Without any tie so far, the machine has just entered DISTRACTED_ALARM
\* and its twin DROWSY_ALARM, under parameters that differ between the
\* branches.
C23_Witness ==
    /\ call.op = "FocusStateMachine.update"
    /\ ~ghost.tie
    /\ ret.event # None
    /\ Get(ret.event).to_state = "DISTRACTED_ALARM"
    /\ ghost.twin.state = "DROWSY_ALARM"
    /\ machine.params.min_distracted_alarm_duration
           # machine.params.min_drowsy_alarm_duration
    /\ machine.time_above_drowsy_warning > 0

\* The timer that was before and is after an update of elapsed time dt is
\* 0 if its score condition does not hold at the update, and has grown by dt
\* if it holds.
TimerFollows(before, after, holds, dt) ==
    after = IF holds THEN before + dt ELSE 0

\* C24: on every update, whatever the state before and after it and
\* whatever the other timers, each of the six dwell timers is 0 if its
\* score condition does not hold at that update and otherwise has grown by
\* the update's dt, which is 0 on the first update and
\* max(0, timestamp - previous timestamp) >= 0 afterwards.
C24_TimersResetOrGrow ==
    [][call'.op = "FocusStateMachine.update"
       => LET p == machine.params
              scores == call'.scores
              dt == IF call.op = "init"
                    THEN 0
                    ELSE Max(0, call'.timestamp - call.timestamp)
          IN /\ TimerFollows(machine.time_above_drowsy_warning,
                             machine'.time_above_drowsy_warning,
                             ScoreGE(scores.drowsiness_score,
                                     p.drowsy_warning_threshold), dt)
             /\ TimerFollows(machine.time_above_drowsy_alarm,
                             machine'.time_above_drowsy_alarm,
                             ScoreGE(scores.drowsiness_score,
                                     p.drowsy_alarm_threshold), dt)
             /\ TimerFollows(machine.time_above_distracted_warning,
                             machine'.time_above_distracted_warning,
                             ScoreGE(scores.distraction_score,
                                     p.distracted_warning_threshold), dt)
             /\ TimerFollows(machine.time_above_distracted_alarm,
                             machine'.time_above_distracted_alarm,
                             ScoreGE(scores.distraction_score,
                                     p.distracted_alarm_threshold), dt)
             /\ TimerFollows(machine.time_below_drowsy_recovery,
                             machine'.time_below_drowsy_recovery,
                             ScoreLE(scores.drowsiness_score,
                                     p.drowsy_recovery_threshold), dt)
             /\ TimerFollows(machine.time_below_distracted_recovery,
                             machine'.time_below_distracted_recovery,
                             ScoreLE(scores.distraction_score,
                                     p.distracted_recovery_threshold), dt)
      ]_vars

\* An update has moved the machine to DROWSY_WARNING: the drowsiness timers
\* kept their time through the change of state, the distraction recovery
\* timer is running too, and the distraction warning timer, whose condition
\* does not hold, is 0.
C24_Witness ==
    /\ call.op = "FocusStateMachine.update"
    /\ ret.event # None
    /\ machine.state = "DROWSY_WARNING"
    /\ machine.time_in_state = 0
    /\ machine.time_above_drowsy_warning > 0
    /\ machine.time_below_distracted_recovery > 0
    /\ machine.time_below_drowsy_recovery = 0
    /\ ~ScoreGE(call.scores.distraction_score,
                machine.params.distracted_warning_threshold)
    /\ machine.time_above_distracted_warning = 0

\* All six dwell timers and time_in_state of the machine m are 0.
AllTimersZero(m) ==
    /\ m.time_in_state = 0
    /\ m.time_above_drowsy_warning = 0
    /\ m.time_above_drowsy_alarm = 0
    /\ m.time_above_distracted_warning = 0
    /\ m.time_above_distracted_alarm = 0
    /\ m.time_below_drowsy_recovery = 0
    /\ m.time_below_distracted_recovery = 0

\* C30: the first update of a machine, whatever its timestamp and scores,
\* leaves every timer at 0, the state FOCUSED and returns no event (the
\* minimum durations being positive); every later update uses
\* dt = max(0, timestamp - previous timestamp): time_in_state grows by it
\* unless the state changes.
C30_FirstUpdateHasNoElapsedTime ==
    [][call'.op = "FocusStateMachine.update"
       => IF call.op = "init"
          THEN /\ machine.params.min_drowsy_warning_duration > 0
               /\ machine.params.min_distracted_warning_duration > 0
               /\ AllTimersZero(machine')
               /\ machine'.state = "FOCUSED"
               /\ ret'.state = "FOCUSED"
               /\ ret'.event = None
               /\ machine'.last_timestamp = Some(call'.timestamp)
          ELSE LET dt == Max(0, call'.timestamp - call.timestamp)
               IN /\ machine'.time_in_state =
                         IF ret'.event # None
                         THEN 0
                         ELSE machine.time_in_state + dt
                  /\ machine'.last_timestamp = Some(call'.timestamp)
      ]_vars

\* The first update came at timestamp 1 s with both scores at the alarm
\* threshold and changed nothing but last_timestamp.
C30_Witness ==
    /\ call.op = "FocusStateMachine.update"
    /\ call.timestamp > 0
    /\ ScoreGE(call.scores.drowsiness_score,
               machine.params.drowsy_alarm_threshold)
    /\ ScoreGE(call.scores.distraction_score,
               machine.params.distracted_alarm_threshold)
    /\ machine = [FocusStateMachine_init(machine.params) EXCEPT
                     !.last_timestamp = Some(call.timestamp)]

----------------------------------------------------------------------------
(* The scores of a signal processor under several weightings *)

MaxScoreTime == 20
MaxScoreCalls == 3

\* The three score weights (in tenths): the defaults, none, and those of
\* the "Chill" and "Strict" profiles of the application.
ScoreWeights ==
    {<<350, 15, 1000>>, <<0, 0, 0>>, <<300, 12, 800>>, <<400, 20, 1200>>}

ScoreConfigs ==
    {[SignalConfig(w) EXCEPT
         !.drowsiness_long_blink_weight = weights[1],
         !.drowsiness_blink_rate_weight = weights[2],
         !.distraction_face_missing_weight = weights[3]] :
        w \in SignalWindows, weights \in ScoreWeights}

InitScores ==
    /\ machine = FocusStateMachine_init(StateParams)
    /\ controller = AlarmController_init(AlarmConfig)
    /\ processor \in {SignalProcessor_init(config) : config \in ScoreConfigs}
    /\ session = FocusSession_init(SessionConfig(TRUE, TRUE))
    /\ app = MainWindow_init
    /\ call = [op |-> "init"]
    /\ ret = None
    /\ ghost = [clock |-> 0, calls |-> 0]

\* One call processor.update(timestamp, face_present, left, right).
ScoresUpdate ==
    \E d \in SignalSteps, metrics \in Measurements :
        LET timestamp == ghost.clock + d
        IN /\ timestamp \in 0..MaxScoreTime
           /\ ghost.calls < MaxScoreCalls
           /\ \E r \in {SignalProcessor_update(processor, timestamp,
                                               metrics.face_present,
                                               metrics.left_eye_ear,
                                               metrics.right_eye_ear)} :
                  /\ processor' = r.processor
                  /\ ret' = r.scores
           /\ call' = [op |-> "SignalProcessor.update",
                       timestamp |-> timestamp,
                       metrics |-> metrics]
           /\ ghost' = [clock |-> timestamp, calls |-> ghost.calls + 1]
           /\ UNCHANGED <<machine, controller, session, app>>

\* One call processor._compute_scores() between two updates.
ScoresCompute ==
    /\ call.op # "SignalProcessor._compute_scores"
    /\ ret' = compute_scores(processor)
    /\ call' = [op |-> "SignalProcessor._compute_scores"]
    /\ UNCHANGED <<machine, controller, processor, session, ghost, app>>

NextScores ==
    \/ ScoresUpdate
    \/ ScoresCompute

SpecScores == InitScores /\ [][NextScores]_vars

\* The fraction s lies between the integers low and high.
ScoreWithin(s, low, high) ==
    /\ s.den > 0
    /\ ScoreGE(s, low)
    /\ ScoreLE(s, high)

\* C25: every SignalScores value returned has drowsiness_score and
\* distraction_score within [0, 100] and fraction_face_missing within
\* [0, 1], whatever the measurements, the timestamps and the (non-negative)
\* weights.
C25_ScoresWithinRange ==
    call.op \in {"SignalProcessor.update", "SignalProcessor._compute_scores"}
        => /\ ScoreWithin(ret.drowsiness_score, 0, 100)
           /\ ScoreWithin(ret.distraction_score, 0, 100)
           /\ ScoreWithin(ret.fraction_face_missing, 0, 1)

\* An update returned a drowsiness score of exactly 100 for a blink rate
\* whose weighted excess alone is above 100, with part of the window's
\* samples lacking a face.
C25_Witness ==
    /\ call.op = "SignalProcessor.update"
    /\ ret.drowsiness_score = Score(100)
    /\ processor.config.drowsiness_blink_rate_weight > 0
    /\ ScoreGE(ret.blink_rate_per_minute, 600)
    /\ ret.long_blink_count = 0
    /\ ret.fraction_face_missing.num > 0
    /\ ret.fraction_face_missing.num < ret.fraction_face_missing.den
    /\ ~ScoreLE(ret.distraction_score, 0)

\* The fraction s is 0.
ScoreIsZero(s) ==
    /\ s.den > 0
    /\ s.num = 0

\* C27 (as claimed): the first update of a processor returns a drowsiness
\* score of 0 and a distraction score of 0, whatever the first measurement.
C27_FirstUpdateScoresZero ==
    (call.op = "SignalProcessor.update" /\ ghost.calls = 1)
        => /\ ScoreIsZero(ret.drowsiness_score)
           /\ ScoreIsZero(ret.distraction_score)

\* C28: a processor that has received no update holds no sample, and
\* _compute_scores on it returns drowsiness 0, distraction 0, blink rate 0,
\* long-blink count 0 and fraction of face missing 0; a processor that has
\* received an update holds a sample.
C28_NoUpdateAllZero ==
    /\ (ghost.calls = 0) <=> (processor.sample_count = 0)
    /\ (ghost.calls = 0) => (processor.sample_timestamps = << >>)
    /\ (call.op = "SignalProcessor._compute_scores" /\ ghost.calls = 0)
           => /\ ScoreIsZero(ret.drowsiness_score)
              /\ ScoreIsZero(ret.distraction_score)
              /\ ScoreIsZero(ret.blink_rate_per_minute)
              /\ ret.long_blink_count = 0
              /\ ScoreIsZero(ret.fraction_face_missing)

\* _compute_scores has been called on a processor with positive weights
\* that had received no update.
C28_Witness ==
    /\ call.op = "SignalProcessor._compute_scores"
    /\ ghost.calls = 0
    /\ processor.sample_count = 0
    /\ processor.config.distraction_face_missing_weight > 0
    /\ processor.config.drowsiness_long_blink_weight > 0

\* The log, and the event list a successful summary() has returned, are
\* the events the updates have returned since the latest start.
LogIsReturned ==
    /\ session.events = ghost.returned
    /\ (call.op = "FocusSession.summary" /\ ~ret.raised)
           => ret.stats.events = ghost.returned

\* C26: the event log of the session is the sequence, in call order, of the
\* events returned by the updates since the latest start, and so is the
\* event list summary() returns; no end and no summary changes the log.
C26_LogIsReturnedEvents ==
    /\ []LogIsReturned
    /\ [][call'.op \in {"FocusSession.end", "FocusSession.summary"}
          => session'.events = session.events]_vars

\* A session was ended with two events in its log, returned by two updates.
C26_Witness ==
    /\ call.op = "FocusSession.end"
    /\ ~ret.raised
    /\ Len(session.events) = 2
    /\ session.events[1].to_state = session.events[2].from_state
    /\ ghost.returned = session.events

----------------------------------------------------------------------------
(* The application: the UI thread and the camera thread *)

MaxAppTime == 30

\* What the camera sees: a face with open eyes, closed eyes, no face.
Frames == {"eyes open", "eyes closed", "no face"}

\* LandmarkDetector.process(frame)
process(frame) ==
    CASE frame = "eyes open" ->
             [face_present |-> TRUE, left_eye_ear |-> Some(22),
              right_eye_ear |-> Some(22)]
      [] frame = "eyes closed" ->
             [face_present |-> TRUE, left_eye_ear |-> Some(21),
              right_eye_ear |-> Some(21)]
      [] frame = "no face" ->
             [face_present |-> FALSE, left_eye_ear |-> None,
              right_eye_ear |-> None]

\* The time between two readings of time.monotonic() by the UI thread.
AppSteps == {10, 20}

InitApp ==
    /\ machine = FocusStateMachine_init(BalancedParams)
    /\ controller = AlarmController_init(AlarmConfig)
    /\ \E w \in SessionWindows :
           processor = SignalProcessor_init(SignalConfig(w))
    /\ session = FocusSession_init(SessionConfig(TRUE, TRUE))
    /\ app = MainWindow_init
    /\ call = [op |-> "init"]
    /\ ret = None
    /\ ghost = [clock |-> 0]    \* time.monotonic()

\* UI thread, _on_start_stop_clicked with no session: _start_session makes
\* and starts a new FocusSession, starts a camera thread and the update
\* timer.  At most one camera thread is alive in the model: the click waits
\* for the camera thread of the session before to have left its loop.
StartSession ==
    /\ app.ui = "idle"
    /\ ~app.session_open
    /\ app.camera = "off"
    /\ \E config \in SessionConfigs, w \in SessionWindows :
           /\ \E r \in {FocusSession_start(
                              FocusSession_init(config),
                              FocusStateMachine_init(BalancedParams),
                              SignalProcessor_init(SignalConfig(w)),
                              ghost.clock)} :
                  /\ session' = r.session
                  /\ machine' = r.machine
                  /\ processor' = r.processor
    /\ app' = [app EXCEPT !.session_open = TRUE,
                          !.running = TRUE,
                          !.camera = "read",
                          !.timer = TRUE]
    /\ call' = [op |-> "MainWindow._start_session"]
    /\ ret' = None
    /\ UNCHANGED <<controller, ghost>>

\* UI thread, the update timer fires: _on_update_timer returns at once
\* without a frame, or processes the latest frame and enters
\* session.update.
TimerFires ==
    /\ app.ui = "idle"
    /\ app.timer
    /\ \E d \in AppSteps :
           /\ ghost.clock + d <= MaxAppTime
           /\ ghost' = [clock |-> ghost.clock + d]
    /\ app' = IF ~app.session_open \/ app.last_frame = None
              THEN app
              ELSE [app EXCEPT !.ui = "update",
                               !.ui_frame = app.last_frame,
                               !.inside = @ \cup {<<"ui", "update">>}]
    /\ call' = [op |-> "MainWindow._on_update_timer"]
    /\ ret' = None
    /\ UNCHANGED <<machine, controller, processor, session>>

\* UI thread: session.update runs and returns, and _on_update_timer goes
\* on to its end, or to _stop_session if the target duration is reached.
UpdateReturns ==
    /\ app.ui = "update"
    /\ \E r \in {FocusSession_update(session, machine, processor,
                                     ghost.clock,
                                     process(Get(app.ui_frame)))},
          target_reached \in BOOLEAN :
           /\ session' = r.session
           /\ machine' = r.machine
           /\ processor' = r.processor
           /\ ret' = [raised |-> r.raised]
           /\ app' = [app EXCEPT
                         !.ui = IF target_reached THEN "stop" ELSE "idle",
                         !.ui_frame = None,
                         !.inside = @ \ {<<"ui", "update">>}]
    /\ call' = [op |-> "FocusSession.update", timestamp |-> ghost.clock]
    /\ UNCHANGED <<controller, ghost>>

\* UI thread, _on_start_stop_clicked with a session.
StopClicked ==
    /\ app.ui = "idle"
    /\ app.session_open
    /\ app' = [app EXCEPT !.ui = "stop"]
    /\ call' = [op |-> "MainWindow._on_start_stop_clicked"]
    /\ ret' = None
    /\ UNCHANGED <<machine, controller, processor, session, ghost>>

\* UI thread, _stop_session: stops the update timer and enters
\* session.end.
StopSession ==
    /\ app.ui = "stop"
    /\ app' = [app EXCEPT !.timer = FALSE,
                          !.ui = "end",
                          !.inside = @ \cup {<<"ui", "end">>}]
    /\ call' = [op |-> "MainWindow._stop_session"]
    /\ ret' = None
    /\ UNCHANGED <<machine, controller, processor, session, ghost>>

\* UI thread: session.end runs and returns, _stop_session tells the camera
\* thread to stop, forgets the session and the frame and takes the
\* summary.
EndReturns ==
    /\ app.ui = "end"
    /\ \E r \in {FocusSession_end(session, machine, processor,
                                  ghost.clock)} :
           /\ session' = r.session
           /\ ret' = FocusSession_summary(r.session)
    /\ app' = [app EXCEPT !.ui = "idle",
                          !.running = FALSE,
                          !.session_open = FALSE,
                          !.last_frame = None,
                          !.inside = @ \ {<<"ui", "end">>}]
    /\ call' = [op |-> "FocusSession.end", timestamp |-> ghost.clock]
    /\ UNCHANGED <<machine, controller, processor, ghost>>

\* Camera thread, CameraCapture._run: the loop test and the read of a
\* frame.
CameraReads ==
    /\ app.camera = "read"
    /\ \/ /\ app.running
          /\ \E frame \in Frames :
                 app' = [app EXCEPT !.camera = "callback",
                                    !.camera_frame = Some(frame)]
       \/ /\ ~app.running
          /\ app' = [app EXCEPT !.camera = "off"]
    /\ UNCHANGED <<machine, controller, processor, session, call, ret, ghost>>

\* Camera thread: self.frame_callback(frame_rgb).
CameraCallback ==
    /\ app.camera = "callback"
    /\ app' = [on_camera_frame(app, Get(app.camera_frame)) EXCEPT
                  !.camera = "sleep",
                  !.camera_frame = None]
    /\ UNCHANGED <<machine, controller, processor, session, call, ret, ghost>>

\* Camera thread: the callback has returned; time.sleep(delay).
CameraSleeps ==
    /\ app.camera = "sleep"
    /\ app' = [app EXCEPT !.camera = "read",
                          !.inside = @ \ {<<"camera", "update">>}]
    /\ UNCHANGED <<machine, controller, processor, session, call, ret, ghost>>

NextApp ==
    \/ StartSession
    \/ TimerFires
    \/ UpdateReturns
    \/ StopClicked
    \/ StopSession
    \/ EndReturns
    \/ CameraReads
    \/ CameraCallback
    \/ CameraSleeps

SpecApp == InitApp /\ [][NextApp]_vars

\* C29: in the application only the UI thread is ever inside update or end
\* of the session, and it is inside one call at a time: no two calls of
\* update, and no update and end, overlap; the camera thread, which hands
\* over the latest frame, is inside none.
C29_SessionCallsFromUiThreadOnly ==
    /\ \A entry \in app.inside : entry[1] = "ui"
    /\ Cardinality(app.inside) <= 1
    /\ app.inside # {} => app.ui \in {"update", "end"}

\* The UI thread is inside session.update while the camera thread is
\* handing over a frame different from the one being processed.
C29_Witness ==
    /\ app.inside = {<<"ui", "update">>}
    /\ app.camera = "callback"
    /\ app.camera_frame # app.ui_frame
    /\ session.last_timestamp # None

----------------------------------------------------------------------------
(* The session's accounting and event log, continued; under SpecSession *)

\* The sum of the five per-state buckets of the session s.
BucketSum(s) ==
    s.durations_by_state["FOCUSED"]
        + s.durations_by_state["DROWSY_WARNING"]
        + s.durations_by_state["DROWSY_ALARM"]
        + s.durations_by_state["DISTRACTED_WARNING"]
        + s.durations_by_state["DISTRACTED_ALARM"]

\* C31 (as claimed): an end(t) of a session whose timestamps never went
\* back since its start adds the time since the last update to the bucket of
\* the state that update returned and to no other, and leaves the five
\* buckets summing to t minus the timestamp of the first update (all zero
\* when there was no update).
C31_EndCreditsLastState ==
    [][(/\ call'.op = "FocusSession.end"
        /\ ~ret'.raised
        /\ ghost'.ordered)
       => /\ session'.durations_by_state
                 = IF ghost.reported = None
                   THEN session.durations_by_state
                   ELSE LET last == Get(ghost.reported)
                        IN [session.durations_by_state EXCEPT
                               ![last.state] =
                                   @ + (call'.timestamp - last.timestamp)]
          /\ IF ghost.first = None
             THEN session'.durations_by_state = [state \in FocusState |-> 0]
             ELSE BucketSum(session') = call'.timestamp - Get(ghost.first)
      ]_vars

\* The ENTER_ event type named after a state.
EnterKind(state) ==
    CASE state = "FOCUSED" -> "ENTER_FOCUSED"
      [] state = "DROWSY_WARNING" -> "ENTER_DROWSY_WARNING"
      [] state = "DROWSY_ALARM" -> "ENTER_DROWSY_ALARM"
      [] state = "DISTRACTED_WARNING" -> "ENTER_DISTRACTED_WARNING"
      [] state = "DISTRACTED_ALARM" -> "ENTER_DISTRACTED_ALARM"

\* Every event of the log changes the state and is of the kind of the state
\* it enters, and each event leaves the state the event before it entered.
LogIsChain(events) ==
    /\ \A i \in 1..Len(events) :
           /\ events[i].from_state # events[i].to_state
           /\ events[i].event_type = EnterKind(events[i].to_state)
    /\ \A i \in 1..(Len(events) - 1) :
           events[i].to_state = events[i + 1].from_state

\* C32: in a session whose state machine was new when the session was
\* started, every logged event has from_state # to_state and the ENTER_
\* type of its to_state, consecutive events chain (the to_state of one is
\* the from_state of the next), and the first event leaves FOCUSED.
C32_LogIsChainFromFocused ==
    ghost.fresh
        => /\ LogIsChain(session.events)
           /\ session.events # << >>
                  => session.events[1].from_state = "FOCUSED"

\* The log of a new session holds a warning event followed by the alarm
\* event of the same branch.
C32_Witness ==
    /\ ghost.fresh
    /\ Len(session.events) = 2
    /\ session.events[1].to_state \in {"DROWSY_WARNING", "DISTRACTED_WARNING"}
    /\ session.events[2].to_state \in {"DROWSY_ALARM", "DISTRACTED_ALARM"}
    /\ session.events[2].timestamp > session.events[1].timestamp

\* C33 (as claimed): summary() raises unless an end has completed since the
\* most recent start; in particular after start, end, start it raises until
\* the second end.
C33_SummaryNeedsEndAfterStart ==
    (call.op = "FocusSession.summary" /\ ~ghost.closed) => ret.raised

----------------------------------------------------------------------------
(* A session ticked at a fixed rate and started again between ticks *)

MaxTickCalls == 9

\* The sliding window of the Balanced profile (10 s).
TickWindows == {100}

\* The time between two ticks (0.5 s).
TickSteps == {5}

\* FocusSession(SessionConfig(), state_params, signal_config) with the
\* parameters of the Balanced profile, not started.
InitTicks ==
    /\ machine = FocusStateMachine_init(BalancedParams)
    /\ controller = AlarmController_init(AlarmConfig)
    /\ \E w \in TickWindows :
           processor = SignalProcessor_init(SignalConfig(w))
    /\ session = FocusSession_init(SessionConfig(TRUE, TRUE))
    /\ app = MainWindow_init
    /\ call = [op |-> "new"]
    /\ ret = None
    /\ ghost = [clock |-> 0,
                calls |-> 0,
                fresh |-> TRUE,     \* the state machine had had no update
                                    \* when the latest start was made
                emitted |-> << >>]  \* every event the state machine has
                                    \* returned, in call order

\* One call session.start(timestamp) at the time of the latest tick.
TickStart ==
    /\ ghost.calls < MaxTickCalls
    /\ \E r \in {FocusSession_start(session, machine, processor,
                                    ghost.clock)} :
           /\ session' = r.session
           /\ machine' = r.machine
           /\ processor' = r.processor
    /\ call' = [op |-> "FocusSession.start", timestamp |-> ghost.clock]
    /\ ret' = [raised |-> FALSE]
    /\ ghost' = [ghost EXCEPT !.calls = @ + 1,
                              !.fresh = machine.last_timestamp = None]
    /\ UNCHANGED <<controller, app>>

\* One tick: session.update(timestamp, metrics), one step after the latest.
TickUpdate ==
    \E d \in TickSteps, metrics \in SessionMeasurements :
        LET timestamp == ghost.clock + d
        IN /\ ghost.calls < MaxTickCalls
           /\ \E r \in {FocusSession_update(session, machine, processor,
                                            timestamp, metrics)} :
                  /\ session' = r.session
                  /\ machine' = r.machine
                  /\ processor' = r.processor
                  /\ ret' = IF r.raised
                            THEN [raised |-> TRUE]
                            ELSE [raised |-> FALSE,
                                  state |-> r.state,
                                  scores |-> r.scores,
                                  event |-> r.event]
                  /\ ghost' = [ghost EXCEPT
                                  !.clock = timestamp,
                                  !.calls = @ + 1,
                                  !.emitted =
                                      IF r.raised \/ r.event = None THEN @
                                      ELSE Append(@, Get(r.event))]
           /\ call' = [op |-> "FocusSession.update",
                       timestamp |-> timestamp,
                       metrics |-> metrics]
           /\ UNCHANGED <<controller, app>>

NextTicks ==
    \/ TickStart
    \/ TickUpdate

SpecTicks == InitTicks /\ [][NextTicks]_vars

\* The warning state of the branch of an alarm state.
WarningOf(alarm) ==
    IF alarm = "DROWSY_ALARM" THEN "DROWSY_WARNING" ELSE "DISTRACTED_WARNING"

\* Every event of events that enters an alarm state comes directly after an
\* event that enters the warning state of the same branch.
AlarmEventFollowsWarningEvent(events) ==
    \A i \in 1..Len(events) :
        \A alarm \in {"DROWSY_ALARM", "DISTRACTED_ALARM"} :
            events[i].event_type = EnterKind(alarm)
                => /\ i > 1
                   /\ events[i - 1].event_type = EnterKind(WarningOf(alarm))

\* An update enters an alarm state only from the warning state of the same
\* branch; in particular no update takes FOCUSED to an alarm state.
AlarmEnteredFromWarning ==
    \A alarm \in {"DROWSY_ALARM", "DISTRACTED_ALARM"} :
        (machine'.state = alarm /\ machine.state # alarm)
            => machine.state = WarningOf(alarm)

\* In the session's event log every alarm event follows a warning event.
LogAlarmFollowsWarning ==
    AlarmEventFollowsWarningEvent(session.events)

\* C34 (as claimed): an alarm state is entered only from the warning state
\* of its branch, never from FOCUSED within one update, and in the session's
\* event log every ENTER_DROWSY_ALARM (ENTER_DISTRACTED_ALARM) event is
\* immediately preceded by an ENTER_DROWSY_WARNING
\* (ENTER_DISTRACTED_WARNING) event.
C34_AlarmEventAfterWarningEvent ==
    /\ []LogAlarmFollowsWarning
    /\ [][AlarmEnteredFromWarning]_vars

\* Among the events the state machine has returned, and in the log of a
\* session started with a state machine that had had no update, every alarm
\* event follows a warning event.
EmittedAlarmFollowsWarning ==
    /\ AlarmEventFollowsWarningEvent(ghost.emitted)
    /\ ghost.fresh => AlarmEventFollowsWarningEvent(session.events)

\* C34 (amended): an alarm state is entered only from the warning state of
\* its branch, never from FOCUSED within one update, so among the events
\* the state machine returns every alarm event is immediately preceded by
\* the warning event of its branch; the same holds in the event log of a
\* session whose state machine had had no update when the session was
\* started.
C34_AlarmOnlyAfterWarning ==
    /\ []EmittedAlarmFollowsWarning
    /\ [][AlarmEnteredFromWarning]_vars

\* The log of a new session ends with the events entering DROWSY_WARNING
\* and then DROWSY_ALARM, the alarm one tick after the warning.
C34_Witness ==
    /\ ghost.fresh
    /\ Len(session.events) >= 2
    /\ session.events[Len(session.events)].event_type = "ENTER_DROWSY_ALARM"
    /\ session.events[Len(session.events) - 1].event_type
           = "ENTER_DROWSY_WARNING"
    /\ machine.state = "DROWSY_ALARM"

----------------------------------------------------------------------------
(* The dwell timers and the transitions, continued; under SpecMachine *)

\* C35: while no timestamp has gone back, after an update at which the
\* condition of a dwell timer holds, the timer is the update's timestamp
\* minus the timestamp of the latest update at which the condition did not
\* hold, or minus the first update's timestamp if it held at every update:
\* the time between the last failing tick and the first satisfying tick is
\* counted.
C35_TimerMeasuresFromLastFailingTick ==
    (call.op = "FocusStateMachine.update" /\ ghost.monotone)
        => \A timer \in DwellTimers :
               DwellHolds(timer, machine.params, call.scores)
                   => machine[timer]
                          = call.timestamp - Get(ghost.since[timer])

\* The drowsiness warning condition holds at this update and did not hold
\* at the update 1 s before it, which was not the first: the timer reads
\* 1 s, while the distraction recovery timer, whose condition held at every
\* update, has measured more.
C35_Witness ==
    /\ call.op = "FocusStateMachine.update"
    /\ ghost.monotone
    /\ DwellHolds("time_above_drowsy_warning", machine.params, call.scores)
    /\ DwellHolds("time_below_distracted_recovery", machine.params,
                  call.scores)
    /\ Get(ghost.since["time_above_drowsy_warning"]) = call.timestamp - 10
    /\ machine.time_above_drowsy_warning = 10
    /\ Get(ghost.since["time_below_distracted_recovery"])
           < Get(ghost.since["time_above_drowsy_warning"])
    /\ machine.time_below_distracted_recovery > 10

----------------------------------------------------------------------------
(* The ticked session, continued; under SpecTicks *)

\* Values of time_in_state to compare an update against: none, one tick,
\* the two minimum durations of the Balanced profile, ten minutes.
ResidenceTimes == {0, 5, 15, 20, 6000}

\* C36: no transition depends on time_in_state: an update of the machine
\* with any other time_in_state returns the same state and event and leaves
\* every other field of the machine the same. A warning state has no
\* minimum residence time: the alarm timer runs while the machine is still
\* FOCUSED, so the update after the one that entered the warning state can
\* enter the alarm state.
C36_TransitionsIgnoreTimeInState ==
    [][(call'.op = "FocusSession.update" /\ ~ret'.raised)
       => \A t \in ResidenceTimes :
              LET r == FocusStateMachine_update(
                           [machine EXCEPT !.time_in_state = t],
                           call'.timestamp, ret'.scores)
              IN /\ r.state = ret'.state
                 /\ r.event = ret'.event
                 /\ [r.machine EXCEPT !.time_in_state = 0]
                        = [machine' EXCEPT !.time_in_state = 0]
      ]_vars

\* The machine entered DISTRACTED_WARNING at one tick and DISTRACTED_ALARM
\* at the next, after one tick in the warning state.
C36_Witness ==
    /\ call.op = "FocusSession.update"
    /\ ~ret.raised
    /\ ret.event # None
    /\ Len(ghost.emitted) >= 2
    /\ LET warning == ghost.emitted[Len(ghost.emitted) - 1]
           alarm == ghost.emitted[Len(ghost.emitted)]
       IN /\ alarm = Get(ret.event)
          /\ warning.from_state = "FOCUSED"
          /\ warning.to_state = "DISTRACTED_WARNING"
          /\ alarm.from_state = "DISTRACTED_WARNING"
          /\ alarm.to_state = "DISTRACTED_ALARM"
          /\ \E d \in TickSteps : alarm.timestamp = warning.timestamp + d

----------------------------------------------------------------------------
(* The blink queues under several blink durations *)

MaxBlinkTime == 30
MaxBlinkCalls == 6

\* window_duration_seconds of the processor in this specification: 0.6 s.
BlinkWindows == {6}

\* (minimum_blink_duration_seconds, minimum_long_blink_duration_seconds):
\* the defaults, the two exchanged (a long blink shorter than a blink), and
\* both the same.
BlinkDurations == {<<1, 4>>, <<4, 1>>, <<4, 4>>}

BlinkConfigs ==
    {[SignalConfig(w) EXCEPT
         !.minimum_blink_duration_seconds = durations[1],
         !.minimum_long_blink_duration_seconds = durations[2]] :
        w \in BlinkWindows, durations \in BlinkDurations}

\* Timestamp increments of successive updates, one of them backwards.
BlinkSteps == {-4, 1, 4}

InitBlinks ==
    /\ machine = FocusStateMachine_init(StateParams)
    /\ controller = AlarmController_init(AlarmConfig)
    /\ processor \in {SignalProcessor_init(config) : config \in BlinkConfigs}
    /\ session = FocusSession_init(SessionConfig(TRUE, TRUE))
    /\ app = MainWindow_init
    /\ call = [op |-> "init"]
    /\ ret = None
    /\ ghost = [clock |-> 0, calls |-> 0]

\* One call processor.update(timestamp, face_present, left, right).
BlinksUpdate ==
    \E d \in BlinkSteps, metrics \in SessionMeasurements :
        LET timestamp == ghost.clock + d
        IN /\ timestamp \in 0..MaxBlinkTime
           /\ ghost.calls < MaxBlinkCalls
           /\ \E r \in {SignalProcessor_update(processor, timestamp,
                                               metrics.face_present,
                                               metrics.left_eye_ear,
                                               metrics.right_eye_ear)} :
                  /\ processor' = r.processor
                  /\ ret' = r.scores
           /\ call' = [op |-> "SignalProcessor.update",
                       timestamp |-> timestamp,
                       metrics |-> metrics]
           /\ ghost' = [clock |-> timestamp, calls |-> ghost.calls + 1]
           /\ UNCHANGED <<machine, controller, session, app>>

NextBlinks == BlinksUpdate

SpecBlinks == InitBlinks /\ [][NextBlinks]_vars

\* The sequence a is b with some of its entries left out.
RECURSIVE IsSubSeq(_, _)
IsSubSeq(a, b) ==
    IF a = << >> THEN TRUE
    ELSE IF b = << >> THEN FALSE
    ELSE IF Head(a) = Head(b) THEN IsSubSeq(Tail(a), Tail(b))
    ELSE IsSubSeq(a, Tail(b))

\* C37: after every update the long-blink queue is a sub-sequence of the
\* blink queue, so the long_blink_count returned is at most the number of
\* blinks in the window, whatever the two minimum durations, the long one
\* below the short one included.
C37_LongBlinksAmongBlinks ==
    call.op = "SignalProcessor.update"
        => /\ IsSubSeq(processor.long_blink_event_timestamps,
                       processor.blink_event_timestamps)
           /\ ret.long_blink_count
                  = Len(processor.long_blink_event_timestamps)
           /\ ret.long_blink_count <= Len(processor.blink_event_timestamps)

\* With the long minimum (0.1 s) below the blink minimum (0.4 s), an eye
\* closure of 0.1 s has just ended without being recorded in either queue,
\* while an earlier long blink is retained in both.
C37_Witness ==
    /\ call.op = "SignalProcessor.update"
    /\ processor.config.minimum_long_blink_duration_seconds
           < processor.config.minimum_blink_duration_seconds
    /\ ~processor.current_blink_active
    /\ processor.long_blink_event_timestamps # << >>
    /\ processor.long_blink_event_timestamps
           = processor.blink_event_timestamps
    /\ call.timestamp
           > processor.blink_event_timestamps[
                 Len(processor.blink_event_timestamps)]
    /\ \E metrics \in SessionMeasurements :
           /\ call.metrics = metrics
           /\ metrics.face_present
           /\ Get(metrics.left_eye_ear)
                  >= processor.config.eye_aspect_ratio_threshold

----------------------------------------------------------------------------
(* The sample counters and the blink in progress *)

\* The number of TRUE entries of a sequence of flags.
CountTrue(flags) ==
    Cardinality({i \in 1..Len(flags) : flags[i]})

\* C39: after every update, sample_count is the length of both sample
\* queues, sample_count_face_present is the number of retained samples
\* whose face-present flag is true, and
\* 0 <= sample_count_face_present <= sample_count with sample_count >= 1.
C39_CountersMatchQueues ==
    call.op = "SignalProcessor.update"
        => /\ processor.sample_count = Len(processor.sample_timestamps)
           /\ processor.sample_count
                  = Len(processor.sample_face_present_flags)
           /\ processor.sample_count_face_present
                  = CountTrue(processor.sample_face_present_flags)
           /\ 0 <= processor.sample_count_face_present
           /\ processor.sample_count_face_present <= processor.sample_count
           /\ processor.sample_count >= 1

\* An update without a face has evicted the oldest sample, which had a
\* face: of the samples retained, some have a face and some have none.
C39_Witness ==
    /\ call.op = "SignalProcessor.update"
    /\ ~call.metrics.face_present
    /\ ghost.calls > processor.sample_count
    /\ processor.sample_count = 3
    /\ processor.sample_count_face_present = 2
    /\ processor.sample_face_present_flags = <<TRUE, TRUE, FALSE>>
    /\ Head(processor.sample_timestamps) > 0

\* C40: in every state of the processor, current_blink_active is true
\* exactly when current_blink_start_timestamp is set; so when a blink ends
\* (the eye is not closed and a blink is active) the start timestamp that
\* _update_blinks asserts and subtracts is there.
C40_BlinkActiveIffStartSet ==
    processor.current_blink_active
        <=> processor.current_blink_start_timestamp # None

\* A second eye closure is in progress, begun at the latest update, after a
\* first one has ended and been recorded as a blink.
C40_Witness ==
    /\ call.op = "SignalProcessor.update"
    /\ processor.current_blink_active
    /\ processor.current_blink_start_timestamp = Some(call.timestamp)
    /\ processor.blink_event_timestamps # << >>
    /\ ghost.calls >= 3

----------------------------------------------------------------------------
(* Starting a session again; under SpecTicks *)

\* C38: start resets the session's own bookkeeping (the per-state
\* durations, the event log, the last timestamp) and nothing else: the
\* state machine (state, last timestamp, dwell timers) and the signal
\* processor (queues, counters, blink in progress) are as they were, and the
\* session begins in the state the machine is in, FOCUSED or not.
C38_StartKeepsMachineAndProcessor ==
    [][call'.op = "FocusSession.start"
       => /\ machine' = machine
          /\ processor' = processor
          /\ session'.durations_by_state = [state \in FocusState |-> 0]
          /\ session'.events = << >>
          /\ session'.last_timestamp = None
          /\ session'.last_state = Some(machine.state)
          /\ session'.config = session.config
      ]_vars

\* A session has just been started again in a warning state: the log and
\* the durations of the run before are gone, while the machine keeps its
\* timestamp and a running dwell timer and the processor its samples, a
\* recorded blink and an eye closure in progress.
C38_Witness ==
    /\ call.op = "FocusSession.start"
    /\ ~ghost.fresh
    /\ ghost.emitted # << >>
    /\ session.events = << >>
    /\ session.last_state = Some(machine.state)
    /\ machine.state \in {"DROWSY_WARNING", "DISTRACTED_WARNING"}
    /\ machine.last_timestamp # None
    /\ machine.time_above_drowsy_warning + machine.time_above_distracted_warning
           > 0
    /\ processor.sample_count > 0
    /\ processor.blink_event_timestamps # << >>
    /\ processor.current_blink_active

====
